---- MODULE Spec2Model ----
(***************************************************************************)
(* Model of the Telegram joke bot's core: the in-memory rate limiter       *)
(* (utils/RateLimiter.ts), the Agenda-backed persistent scheduler          *)
(* (services/AgendaScheduler.ts) and the node-cron scheduler               *)
(* (services/JokeScheduler.ts).                                            *)
(***************************************************************************)
EXTENDS Integers, Sequences, FiniteSets, TLC

(***************************************************************************)
(* Bounds of the model.                                                    *)
(***************************************************************************)
\* the modelled clock advances in steps of TickMs milliseconds
TickMs == 500
\* number of clock steps explored
MaxTicks == 5
\* a limiter is driven for maxRequests + ExtraCalls calls
ExtraCalls == 3
\* number of scheduler and handler invocations in flight together
MaxInFlight == 2
\* number of scheduler and handler invocations issued in one run
MaxIssued == 2

\* an optional field is a sequence: <<>> when absent, <<v>> when present
Undefined == <<>>

Max(a, b) == IF a >= b THEN a ELSE b
Min(a, b) == IF a <= b THEN a ELSE b

\* Math.ceil(a / b) for b > 0 (\div rounds towards minus infinity)
Ceil(a, b) == -((-a) \div b)

VARIABLES
  now,        \* Date.now()
  config,     \* RateLimiter.config: maxRequests, windowMs, keyGenerator
  store,      \* RateLimiter.store: key -> [requests, resetTime]
  log,        \* history of the calls made on the limiter, with their results
  pending,    \* checkLimit calls queued as asynchronous tasks, per context
  users,        \* the users collection: chatId -> user document, or Absent
  jobs,         \* the agenda_jobs collection: the persisted job documents
  nextJobId,    \* the _id the next inserted job document gets
  scheduledJobs,\* AgendaScheduler.scheduledJobs: chatId -> jobId
  calls,        \* the asynchronous invocations in flight, in the order issued
  starting,     \* AgendaScheduler.start: its state and the users still to load
  last,         \* per chatId, the schedule or cancel call issued last
  issued,       \* number of invocations issued so far
  reply,        \* per chatId, the last message the bot sent
  cronJobs,     \* JokeScheduler.scheduledJobs: chatId -> cron task
  cronTasks,    \* the node-cron tasks that are running
  nextTaskId,   \* identity of the next cron task created
  agenda,       \* AgendaScheduler.agenda: "null", "running" or "stopped"
  up,           \* the Node process is alive
  sent,         \* per chatId, the number of jokes sent to the chat
  logged,       \* the errors reported: records [chatId, what]
  atStop,       \* the job documents stored when the process last ended
  limiters,     \* RateLimiterManager.limiters: name -> RateLimiter object
  heap,         \* the RateLimiter objects constructed so far
  got,          \* the outcome of the last registry or command call
  res,          \* the HTTP response the middleware worked on last
  lastSentAt,   \* per chatId, how often updateLastSentAt has stamped the user
  polling       \* the bot polls Telegram for messages

limiterVars == <<now, config, store, log, pending>>

agendaVars ==
  <<users, jobs, nextJobId, scheduledJobs, calls, starting, last, issued, reply>>

cronVars == <<cronJobs, cronTasks, nextTaskId>>

runVars == <<agenda, up, sent, logged, atStop>>

guardVars == <<limiters, heap, got, res, lastSentAt, polling>>

vars == <<limiterVars, agendaVars, cronVars,
               runVars, guardVars>>

\* the subscribers of the model
ChatIds == {1, 2}

\* String(chatId)
String(c) == IF c = 1 THEN "1" ELSE "2"

\* User.findOne found no document
Absent == [exists |-> FALSE, isEnabled |-> FALSE, frequency |-> 0]

(***************************************************************************)
(* The rate limiter.                                                       *)
(***************************************************************************)
\* the limiter configurations explored: small quotas and windows, the
\* telegram command policy (5 per 5 s) and a custom key generator
Configs ==
  { [maxRequests |-> 1, windowMs |-> 1000, keyGenerator |-> "default"],
    [maxRequests |-> 2, windowMs |-> 1500, keyGenerator |-> "default"],
    [maxRequests |-> 5, windowMs |-> 5000, keyGenerator |-> "default"],
    [maxRequests |-> 2, windowMs |-> 1500, keyGenerator |-> "custom"] }

\* the contexts passed to checkLimit; "" stands for an absent field
Contexts(cfg) ==
  IF cfg.keyGenerator = "custom"
    THEN { [identifier |-> "", userId |-> "user1", action |-> a] :
             a \in {"actionA", "actionB"} }
    ELSE IF cfg.maxRequests = 5
      THEN { [identifier |-> "u1", userId |-> "", action |-> ""] }
      ELSE { [identifier |-> i, userId |-> "", action |-> ""] :
               i \in {"u1", ""} }

\* config.keyGenerator: (ctx) => ctx.identifier || 'default', or the
\* custom generator `${ctx.userId}:${ctx.action}`
keyGenerator(cfg, ctx) ==
  IF cfg.keyGenerator = "custom"
    THEN ctx.userId \o ":" \o ctx.action
    ELSE IF ctx.identifier # "" THEN ctx.identifier ELSE "default"

\* the entry checkLimit works on: the stored one, or a fresh one
Entry(st, key, t, cfg) ==
  IF key \in DOMAIN st
    THEN st[key]
    ELSE [requests |-> 0, resetTime |-> t + cfg.windowMs]

\* Window in which every call inside the window moves its end
WindowSliding(data, t, cfg) ==
  IF t >= data.resetTime
    THEN [requests |-> 1, resetTime |-> t + cfg.windowMs]
    ELSE [requests |-> data.requests + 1, resetTime |-> t + cfg.windowMs]

\* Window resetting an expired window to 0 without counting the request
WindowResetToZero(data, t, cfg) ==
  IF t >= data.resetTime
    THEN [requests |-> 0, resetTime |-> t + cfg.windowMs]
    ELSE [data EXCEPT !.requests = @ + 1]

\* Window without the reset of an expired window
WindowNoReset(data, t, cfg) == [data EXCEPT !.requests = @ + 1]

\* the window test and the counter update of checkLimit
Window(data, t, cfg) ==
  IF t >= data.resetTime
    THEN [requests |-> 1, resetTime |-> t + cfg.windowMs]
    ELSE [data EXCEPT !.requests = @ + 1]

\* IsAllowed off by one
IsAllowedStrict(data, cfg) == data.requests < cfg.maxRequests

IsAllowed(data, cfg) == data.requests <= cfg.maxRequests

Remaining(data, cfg) == Max(0, cfg.maxRequests - data.requests)

\* RetryAfter rounded down
RetryAfterFloor(data, t) == (data.resetTime - t) \div 1000

RetryAfter(data, t) == Ceil(data.resetTime - t, 1000)

\* the RateLimitResult built from the updated entry
Result(data, t, cfg) ==
  [isAllowed  |-> IsAllowed(data, cfg),
   remaining  |-> Remaining(data, cfg),
   resetTime  |-> data.resetTime,
   retryAfter |-> IF IsAllowed(data, cfg) THEN Undefined
                                          ELSE <<RetryAfter(data, t)>>]

\* StoreAfter with one counter shared by all keys
StoreAfterShared(st, key, data) ==
  [k \in DOMAIN st \cup {key} |-> data]

\* StoreAfter when the entry is a copy: the update of an existing entry is lost
StoreAfterLost(st, key, data) ==
  IF key \in DOMAIN st THEN st
  ELSE [k \in DOMAIN st \cup {key} |-> IF k = key THEN data ELSE st[k]]

\* the store after checkLimit on key: only that key's entry is written
StoreAfter(st, key, data) ==
  [k \in DOMAIN st \cup {key} |-> IF k = key THEN data ELSE st[k]]

RECURSIVE Sum(_, _)
Sum(f, S) ==
  IF S = {} THEN 0
  ELSE LET x == CHOOSE y \in S : TRUE IN f[x] + Sum(f, S \ {x})

\* number of queued tasks
Queued == Sum(pending, DOMAIN pending)

CanCall == Len(log) + Queued < config.maxRequests + ExtraCalls

\* RateLimiter.checkLimit(context)
checkLimit(ctx) ==
  LET key  == keyGenerator(config, ctx)
      data == Window(Entry(store, key, now, config), now, config)
  IN /\ store' = StoreAfter(store, key, data)
     /\ log' = Append(log, [op |-> "check", key |-> key, time |-> now,
                            result |-> Result(data, now, config)])

CheckLimit ==
  /\ CanCall
  /\ \E ctx \in Contexts(config) : checkLimit(ctx)
  /\ UNCHANGED <<now, config, pending, agendaVars, cronVars,
               runVars, guardVars>>

\* Stale for a sweep that spares no entry
StaleEvery(st, t, cfg) == DOMAIN st

\* Stale without the additional window: every expired entry
StaleAtReset(st, t, cfg) ==
  { k \in DOMAIN st : t > st[k].resetTime }

\* the entries RateLimiter.cleanup removes at time t
Stale(st, t, cfg) ==
  { k \in DOMAIN st : t > st[k].resetTime + cfg.windowMs }

\* RateLimiter.cleanup, run by the interval timer
Cleanup ==
  /\ store' = [k \in DOMAIN store \ Stale(store, now, config) |-> store[k]]
  /\ UNCHANGED <<now, config, log, pending, agendaVars, cronVars,
               runVars, guardVars>>

\* time passes
Tick ==
  /\ now + TickMs <= MaxTicks * TickMs
  /\ now' = now + TickMs
  /\ UNCHANGED <<config, store, log, pending, agendaVars, cronVars,
               runVars, guardVars>>

\* a checkLimit call is queued as a task: Promise.resolve().then(...)
Enqueue ==
  /\ CanCall
  /\ \E ctx \in Contexts(config) :
       pending' = [pending EXCEPT ![ctx] = @ + 1]
  /\ UNCHANGED <<now, config, store, log, agendaVars, cronVars,
               runVars, guardVars>>

\* a queued task runs: checkLimit has no await, it runs to completion
RunTask ==
  /\ \E ctx \in DOMAIN pending :
       /\ pending[ctx] > 0
       /\ checkLimit(ctx)
       /\ pending' = [pending EXCEPT ![ctx] = @ - 1]
  /\ UNCHANGED <<now, config, agendaVars, cronVars,
               runVars, guardVars>>

\* no registry or command call was made yet
NoOutcome ==
  [op |-> "none", name |-> "", found |-> FALSE, thrown |-> FALSE, id |-> 0,
   allowed |-> FALSE]

\* an Express response nothing was done to: no header, status 200, nothing
\* sent, next() not called
NoResponse == [headers |-> <<>>, status |-> 200, sent |-> FALSE, next |-> 0]

\* the state after construction, for a limiter with configuration cfg
InitWith(cfg) ==
  /\ now = 0
  /\ config = cfg
  /\ store = <<>>
  /\ log = <<>>
  /\ pending = [ctx \in Contexts(config) |-> 0]
  /\ users = [c \in ChatIds |-> Absent]
  /\ jobs = {}
  /\ nextJobId = 1
  /\ scheduledJobs = <<>>
  /\ calls = <<>>
  /\ starting = [state |-> "idle", queue |-> <<>>]
  /\ last = [c \in ChatIds |-> [op |-> "none", frequency |-> 0]]
  /\ issued = 0
  /\ reply = [c \in ChatIds |-> "none"]
  /\ cronJobs = <<>>
  /\ cronTasks = {}
  /\ nextTaskId = 1
  /\ agenda = "null"
  /\ up = TRUE
  /\ sent = [c \in ChatIds |-> 0]
  /\ logged = {}
  /\ atStop = <<>>
  /\ limiters = <<>>
  /\ heap = <<>>
  /\ got = NoOutcome
  /\ res = NoResponse
  /\ lastSentAt = [c \in ChatIds |-> 0]
  /\ polling = FALSE

Init == \E cfg \in Configs : InitWith(cfg)

Next == CheckLimit \/ Cleanup \/ Tick

Spec == Init /\ [][Next]_vars

\* the limiter driven by concurrent tasks only
InitConcurrent ==
  /\ Init
  /\ config.maxRequests <= 2

NextConcurrent == Enqueue \/ RunTask \/ Tick

SpecConcurrent == InitConcurrent /\ [][NextConcurrent]_vars

(***************************************************************************)
(* The users collection (UserService).                                     *)
(***************************************************************************)
\* UserService.findOrCreateUser on a chat that has no document yet
CreateUser ==
  /\ \E c \in ChatIds :
       /\ ~users[c].exists
       /\ users' = [users EXCEPT
                      ![c] = [exists |-> TRUE, isEnabled |-> TRUE, frequency |-> 1]]
  /\ UNCHANGED <<limiterVars, jobs, nextJobId, scheduledJobs, calls, starting,
                 last, issued, reply, cronVars, runVars, guardVars>>

\* UserService.disableJokes
DisableJokes ==
  /\ \E c \in ChatIds :
       /\ users[c].exists /\ users[c].isEnabled
       /\ users' = [users EXCEPT ![c].isEnabled = FALSE]
  /\ UNCHANGED <<limiterVars, jobs, nextJobId, scheduledJobs, calls, starting,
                 last, issued, reply, cronVars, runVars, guardVars>>

\* UserService.enableJokes
EnableJokes ==
  /\ \E c \in ChatIds :
       /\ users[c].exists /\ ~users[c].isEnabled
       /\ users' = [users EXCEPT ![c].isEnabled = TRUE]
  /\ UNCHANGED <<limiterVars, jobs, nextJobId, scheduledJobs, calls, starting,
                 last, issued, reply, cronVars, runVars, guardVars>>

\* UserService.getAllEnabledUsers, as a sequence of <<chatId, frequency>>
RECURSIVE AsSeq(_)
AsSeq(S) ==
  IF S = {} THEN <<>>
  ELSE LET c == CHOOSE x \in S : \A y \in S : x <= y
       IN <<c>> \o AsSeq(S \ {c})

getAllEnabledUsers ==
  LET enabled == AsSeq({ c \in ChatIds : users[c].exists /\ users[c].isEnabled })
  IN [i \in DOMAIN enabled |-> <<enabled[i], users[enabled[i]].frequency>>]

(***************************************************************************)
(* AgendaScheduler: every await is a point where other invocations run.    *)
(***************************************************************************)
\* the frequencies subscribers choose
Frequencies == {5, 10}

\* the numbers passed as a frequency, in and out of the range 1..1440
FreqInputs == {0, 5, 1441}

\* a range test that has lost its upper limit
ValidFrequencyNoMax(n) == ~(n < 1)

\* the range test of handleFrequency and UserService.setFrequency
ValidFrequency(n) == ~(n < 1 \/ n > 1440)

\* a query that has lost its 'data.chatId' clause
JobsOfAnyChat(c) == { j \in jobs : j.name = "deliver-joke" }

\* the job documents agenda.cancel({name, 'data.chatId': chatId}) matches
JobsOf(c) == { j \in jobs : j.name = "deliver-joke" /\ j.data.chatId = c }

\* job.repeatEvery(`${frequency} minutes`)
repeatEvery(f) == <<f, "minutes">>

\* the minutes between runs that a repeatInterval stands for
IntervalMinutes(j) == j.repeatInterval[1]

Call(cmd, op, c, f, pc) ==
  [cmd |-> cmd, op |-> op, chatId |-> c, frequency |-> f, pc |-> pc, jobId |-> 0]

CanIssue == up /\ Len(calls) < MaxInFlight /\ issued < MaxIssued

\* console.error: an error is reported for the chat
Report(c, what) == logged \cup { [chatId |-> c, what |-> what] }

Remove(seq, i) == SubSeq(seq, 1, i - 1) \o SubSeq(seq, i + 1, Len(seq))

\* an invocation returns: a command handler then confirms to the user
Finish(i) ==
  /\ calls' = Remove(calls, i)
  /\ reply' = CASE calls[i].cmd = "frequency" ->
                    [reply EXCEPT ![calls[i].chatId] = "updated"]
                [] calls[i].cmd = "enable" ->
                    [reply EXCEPT ![calls[i].chatId] = "enabled"]
                [] calls[i].cmd = "disable" ->
                    [reply EXCEPT ![calls[i].chatId] = "paused"]
                [] OTHER -> reply

\* AgendaScheduler.initialize: the Agenda is created, the handler of
\* 'deliver-joke' is defined and agenda.start() begins to process jobs
Initialize ==
  /\ up /\ agenda = "null"
  /\ agenda' = "running"
  /\ UNCHANGED <<limiterVars, agendaVars, cronVars, up, sent, logged,
                 atStop, guardVars>>

\* AgendaScheduler.scheduleUserJokes is called: it throws when there is no
\* Agenda, otherwise it runs up to its first await
scheduleUserJokes(cmd, c, f) ==
  /\ issued' = issued + 1
  /\ IF agenda = "null"
       THEN /\ logged' = Report(c, "not initialized")
            /\ UNCHANGED <<calls, last>>
       ELSE /\ calls' = Append(calls, Call(cmd, "schedule", c, f, "cancel"))
            /\ last' = [last EXCEPT ![c] = [op |-> "schedule", frequency |-> f]]
            /\ logged' = logged

Schedule(F) ==
  /\ CanIssue
  /\ \E c \in ChatIds : \E f \in F : scheduleUserJokes("api", c, f)
  /\ UNCHANGED <<limiterVars, users, jobs, nextJobId, scheduledJobs, starting,
                 reply, cronVars, agenda, up, sent,
                 atStop, guardVars>>

\* a caller schedules a subscriber at a frequency subscribers choose
ScheduleUserJokes == Schedule(Frequencies)

\* a caller passes any number as the frequency
ScheduleAnyFrequency == Schedule(FreqInputs)

\* AgendaScheduler.cancelUserSchedule is called: it throws when there is no
\* Agenda, otherwise it runs up to its await
cancelUserSchedule(c) ==
  /\ issued' = issued + 1
  /\ IF agenda = "null"
       THEN /\ logged' = Report(c, "not initialized")
            /\ UNCHANGED <<calls, last>>
       ELSE /\ calls' = Append(calls, Call("api", "cancel", c, 0, "cancel"))
            /\ last' = [last EXCEPT ![c] = [op |-> "cancel", frequency |-> 0]]
            /\ logged' = logged

CancelUserSchedule ==
  /\ CanIssue
  /\ \E c \in ChatIds : cancelUserSchedule(c)
  /\ UNCHANGED <<limiterVars, users, jobs, nextJobId, scheduledJobs, starting,
                 reply, cronVars, agenda, up, sent,
                 atStop, guardVars>>

\* a cancel that also ends the deliveries in flight for the chat
AgendaCancelAborting(i) ==
  /\ calls[i].pc = "cancel"
  /\ jobs' = jobs \ JobsOf(calls[i].chatId)
  /\ LET Other(r) == r.chatId # calls[i].chatId \/ r.pc \in {"cancel", "cancelled"}
     IN calls' = SelectSeq([calls EXCEPT ![i].pc = "cancelled"], Other)
  /\ UNCHANGED <<limiterVars, users, nextJobId, scheduledJobs, starting, last,
                 issued, reply, cronVars, runVars, guardVars>>

\* the database runs agenda.cancel: every job document of the chat is deleted
AgendaCancel(i) ==
  /\ calls[i].pc = "cancel"
  /\ jobs' = jobs \ JobsOf(calls[i].chatId)
  /\ calls' = [calls EXCEPT ![i].pc = "cancelled"]
  /\ UNCHANGED <<limiterVars, users, nextJobId, scheduledJobs, starting, last,
                 issued, reply, cronVars, runVars, guardVars>>

\* after await agenda.cancel: scheduledJobs.delete; scheduleUserJokes goes on
\* to create the job and call job.save, cancelUserSchedule returns
AfterCancel(i) ==
  /\ calls[i].pc = "cancelled"
  /\ scheduledJobs' = [c \in DOMAIN scheduledJobs \ {calls[i].chatId} |->
                         scheduledJobs[c]]
  /\ IF calls[i].op = "schedule"
       THEN /\ calls' = [calls EXCEPT ![i].pc = "save"]
            /\ reply' = reply
       ELSE Finish(i)
  /\ UNCHANGED <<limiterVars, users, jobs, nextJobId, starting, last, issued,
                 cronVars, runVars, guardVars>>

\* the database runs job.save: a new job document is inserted
JobSave(i) ==
  /\ calls[i].pc = "save"
  /\ jobs' = jobs \cup { [id |-> nextJobId,
                          name |-> "deliver-joke",
                          data |-> [chatId |-> calls[i].chatId],
                          repeatInterval |-> repeatEvery(calls[i].frequency)] }
  /\ nextJobId' = nextJobId + 1
  /\ calls' = [calls EXCEPT ![i].pc = "saved", ![i].jobId = nextJobId]
  /\ UNCHANGED <<limiterVars, users, scheduledJobs, starting, last, issued,
                 reply, cronVars, runVars, guardVars>>

\* after await job.save: scheduledJobs.set(chatId, {chatId, jobId})
AfterSave(i) ==
  /\ calls[i].pc = "saved"
  /\ scheduledJobs' = [c \in DOMAIN scheduledJobs \cup {calls[i].chatId} |->
                         IF c = calls[i].chatId THEN calls[i].jobId
                                                ELSE scheduledJobs[c]]
  /\ Finish(i)
  /\ UNCHANGED <<limiterVars, users, jobs, nextJobId, starting, last, issued,
                 cronVars, runVars, guardVars>>

\* AgendaScheduler.start reads the enabled users
Start ==
  /\ up /\ starting.state = "idle"
  /\ starting' = [state |-> "loading", queue |-> getAllEnabledUsers]
  /\ UNCHANGED <<limiterVars, users, jobs, nextJobId, scheduledJobs, calls,
                 last, issued, reply, cronVars, runVars, guardVars>>

\* the loop of start: await scheduleUserJokes for the next user; start
\* rethrows the error of a call that throws
StartNext ==
  /\ starting.state = "loading"
  /\ \A i \in DOMAIN calls : calls[i].cmd # "start"
  /\ IF starting.queue = <<>>
       THEN /\ starting' = [starting EXCEPT !.state = "started"]
            /\ UNCHANGED <<calls, last, issued, logged>>
       ELSE /\ CanIssue
            /\ scheduleUserJokes("start", starting.queue[1][1],
                                 starting.queue[1][2])
            /\ starting' = IF agenda = "null"
                             THEN [state |-> "failed", queue |-> <<>>]
                             ELSE [starting EXCEPT !.queue = Tail(@)]
  /\ UNCHANGED <<limiterVars, users, jobs, nextJobId, scheduledJobs, reply,
                 cronVars, agenda, up, sent,
                 atStop, guardVars>>

\* Agenda holds the lock of a job document while its handler runs
Locked(j) ==
  \E i \in DOMAIN calls : calls[i].cmd = "job" /\ calls[i].jobId = j.id

\* Agenda finds a job document that is due and not locked, and runs the
\* 'deliver-joke' handler, which calls deliverJoke(job.attrs.data.chatId)
RunJob ==
  /\ CanIssue /\ agenda = "running"
  /\ \E j \in jobs :
       /\ ~Locked(j)
       /\ calls' = Append(calls, [Call("job", "none", j.data.chatId, 0, "lookup")
                                    EXCEPT !.jobId = j.id])
  /\ issued' = issued + 1
  /\ UNCHANGED <<limiterVars, users, jobs, nextJobId, scheduledJobs, starting,
                 last, reply, cronVars, runVars, guardVars>>

\* AgendaScheduler.testDeliverJoke(chatId) calls deliverJoke
TestDeliverJoke ==
  /\ CanIssue
  /\ \E c \in ChatIds :
       calls' = Append(calls, Call("test", "none", c, 0, "lookup"))
  /\ issued' = issued + 1
  /\ UNCHANGED <<limiterVars, users, jobs, nextJobId, scheduledJobs, starting,
                 last, reply, cronVars, runVars, guardVars>>

\* deliverJoke is entered, by the job handler or by testDeliverJoke; it
\* awaits UserService.getUserByChatId
DeliverJoke == RunJob \/ TestDeliverJoke

\* a catch that rethrows for every caller
RethrowsAlways(cmd) == TRUE

\* an error thrown inside deliverJoke is rethrown by the catch of the
\* AgendaScheduler (to Agenda, which emits 'fail', or to the caller of
\* testDeliverJoke); the catch of the node-cron JokeScheduler only logs it
Rethrows(cmd) == cmd \in {"job", "test"}

\* nobody handles what the cron callback's deliverJoke would reject with:
\* the callback does not await it
Unhandled(cmd) == cmd = "cron" /\ Rethrows(cmd)

\* an awaited call of deliverJoke throws: the error is logged and invocation
\* i ends; an unhandled rejection ends the process
Fail(i) ==
  /\ calls[i].cmd \in {"job", "test", "cron"}
  /\ calls[i].pc \in {"lookup", "fetch", "send", "update"}
  /\ logged' = Report(calls[i].chatId, "delivery")
  /\ IF Unhandled(calls[i].cmd)
       THEN /\ up' = FALSE
            /\ calls' = <<>>
       ELSE /\ up' = up
            /\ calls' = Remove(calls, i)
  /\ UNCHANGED <<limiterVars, users, jobs, nextJobId, scheduledJobs, starting,
                 last, issued, reply, cronVars, agenda, sent,
                 atStop, guardVars>>

\* a test that takes every user for present and enabled
GoneNever(c) == FALSE

\* a test that only asks whether the user exists
GoneOnly(c) == ~users[c].exists

\* a test that takes every user for gone
GoneAlways(c) == TRUE

\* the test of deliverJoke on the user it looked up: !user || !user.isEnabled
GoneOrDisabled(c) == ~users[c].exists \/ ~users[c].isEnabled

\* deliverJoke after the lookup: a missing or disabled user makes it call
\* cancelUserSchedule (which throws when there is no Agenda), otherwise it
\* goes on to fetch the joke
AfterLookup(i) ==
  /\ calls[i].cmd \in {"job", "test"} /\ calls[i].pc = "lookup"
  /\ LET c == calls[i].chatId
     IN IF GoneOrDisabled(c)
          THEN IF agenda = "null"
                 THEN /\ calls' = Remove(calls, i)
                      /\ logged' = Report(c, "not initialized")
                      /\ last' = last
                 ELSE /\ calls' = [calls EXCEPT ![i].op = "cancel",
                                                ![i].pc = "cancel"]
                      /\ last' = [last EXCEPT
                                    ![c] = [op |-> "cancel", frequency |-> 0]]
                      /\ logged' = logged
          ELSE /\ calls' = [calls EXCEPT ![i].pc = "fetch"]
               /\ UNCHANGED <<last, logged>>
  /\ UNCHANGED <<limiterVars, users, jobs, nextJobId, scheduledJobs, starting,
                 issued, reply, cronVars, agenda, up, sent,
                 atStop, guardVars>>

\* JokeService.getFormattedJoke returned the joke
Fetch(i) ==
  /\ calls[i].pc = "fetch"
  /\ calls' = [calls EXCEPT ![i].pc = "send"]
  /\ UNCHANGED <<limiterVars, users, jobs, nextJobId, scheduledJobs, starting,
                 last, issued, reply, cronVars, runVars, guardVars>>

\* botService.sendJoke delivered the joke to the chat
Send(i) ==
  /\ calls[i].pc = "send"
  /\ sent' = [sent EXCEPT ![calls[i].chatId] = @ + 1]
  /\ calls' = [calls EXCEPT ![i].pc = "update"]
  /\ UNCHANGED <<limiterVars, users, jobs, nextJobId, scheduledJobs, starting,
                 last, issued, reply, cronVars, agenda, up, logged,
                 atStop, guardVars>>

\* UserService.updateLastSentAt found the user: deliverJoke returns
Update(i) ==
  /\ calls[i].pc = "update"
  /\ users[calls[i].chatId].exists
  /\ lastSentAt' = [lastSentAt EXCEPT ![calls[i].chatId] = @ + 1]
  /\ calls' = Remove(calls, i)
  /\ UNCHANGED <<limiterVars, users, jobs, nextJobId, scheduledJobs, starting,
                 last, issued, reply, cronVars, runVars, limiters, heap, got,
                 res, polling>>

\* TelegramBotService.handleFrequency up to its first database call: the
\* rate check, the range check, then UserService.setFrequency is awaited
HandleFrequency(c, n) ==
  /\ CanIssue
  /\ checkLimit([identifier |-> String(c), userId |-> "", action |-> ""])
  /\ issued' = issued + 1
  /\ IF ~log'[Len(log')].result.isAllowed
       THEN /\ reply' = [reply EXCEPT ![c] = "rate limited"]
            /\ calls' = calls
       ELSE IF ~ValidFrequency(n)
         THEN /\ reply' = [reply EXCEPT ![c] = "range"]
              /\ calls' = calls
         ELSE /\ reply' = reply
              /\ calls' = Append(calls, Call("frequency", "none", c, n, "setFrequency"))
  /\ UNCHANGED <<now, config, pending, users, jobs, nextJobId, scheduledJobs,
                 starting, last, cronVars, runVars, guardVars>>

Frequency == \E c \in ChatIds : \E n \in FreqInputs : HandleFrequency(c, n)

\* the database runs UserService.setFrequency; handleFrequency then calls
\* scheduleUserJokes, or reports the error when the user does not exist
SetFrequency(i) ==
  /\ calls[i].pc = "setFrequency"
  /\ LET c == calls[i].chatId
         n == calls[i].frequency
     IN IF ValidFrequency(n) /\ users[c].exists
          THEN /\ users' = [users EXCEPT ![c].frequency = n]
               /\ calls' = [calls EXCEPT ![i].pc = "updated"]
               /\ reply' = reply
          ELSE /\ users' = users
               /\ calls' = Remove(calls, i)
               /\ reply' = [reply EXCEPT ![c] = "error"]
  /\ UNCHANGED <<limiterVars, jobs, nextJobId, scheduledJobs, starting, last,
                 issued, cronVars, runVars, guardVars>>

\* handleFrequency after await setFrequency: scheduleUserJokes is called;
\* when it throws, the catch of the handler reports the error to the user
AfterSetFrequency(i) ==
  /\ calls[i].pc = "updated"
  /\ LET c == calls[i].chatId
     IN IF agenda = "null"
          THEN /\ calls' = Remove(calls, i)
               /\ logged' = Report(c, "not initialized")
               /\ reply' = [reply EXCEPT ![c] = "error"]
               /\ last' = last
          ELSE /\ calls' = [calls EXCEPT ![i].op = "schedule",
                                         ![i].pc = "cancel"]
               /\ last' = [last EXCEPT ![c] =
                             [op |-> "schedule", frequency |-> calls[i].frequency]]
               /\ UNCHANGED <<logged, reply>>
  /\ UNCHANGED <<limiterVars, users, jobs, nextJobId, scheduledJobs, starting,
                 issued, cronVars, agenda, up, sent,
                 atStop, guardVars>>

\* AgendaScheduler.stop is called: without an Agenda it returns at once,
\* otherwise it awaits agenda.stop()
Stop ==
  /\ CanIssue
  /\ issued' = issued + 1
  /\ calls' = IF agenda = "null" THEN calls
              ELSE Append(calls, Call("api", "stop", 0, 0, "stop"))
  /\ UNCHANGED <<limiterVars, users, jobs, nextJobId, scheduledJobs, starting,
                 last, reply, cronVars, runVars, guardVars>>

\* agenda.stop(): Agenda stops processing jobs; the job documents stay
AgendaStop(i) ==
  /\ calls[i].pc = "stop"
  /\ agenda' = "stopped"
  /\ calls' = [calls EXCEPT ![i].pc = "stopped"]
  /\ UNCHANGED <<limiterVars, users, jobs, nextJobId, scheduledJobs, starting,
                 last, issued, reply, cronVars, up, sent, logged,
                 atStop, guardVars>>

\* after await agenda.stop(): scheduledJobs.clear()
AfterStop(i) ==
  /\ calls[i].pc = "stopped"
  /\ scheduledJobs' = <<>>
  /\ calls' = Remove(calls, i)
  /\ UNCHANGED <<limiterVars, users, jobs, nextJobId, starting, last, issued,
                 reply, cronVars, runVars, guardVars>>

\* the process ends and a new one is started, once in a behaviour: what is
\* held in memory is gone (the Agenda object, scheduledJobs, the cron tasks,
\* the limiter's store, the invocations in flight), the collections of the
\* database stay; the new process has issued nothing yet
Restart ==
  /\ atStop = <<>>
  /\ atStop' = <<jobs>>
  /\ issued' = 0
  /\ up' = TRUE
  /\ agenda' = "null"
  /\ scheduledJobs' = <<>>
  /\ calls' = <<>>
  /\ starting' = [state |-> "idle", queue |-> <<>>]
  /\ store' = <<>>
  /\ cronJobs' = <<>>
  /\ cronTasks' = {}
  /\ UNCHANGED <<now, config, log, pending, users, jobs, nextJobId, last,
                 reply, nextTaskId, sent, logged, guardVars>>

\* AgendaScheduler.getActiveScheduleCount: the documents agenda.jobs finds
\* for the names `deliver-joke-${chatId}` of the tracked chats; a query
\* that fails ($or of no clause) makes it return scheduledJobs.size
getActiveScheduleCount ==
  IF agenda = "null" THEN 0
  ELSE IF DOMAIN scheduledJobs = {} THEN Cardinality(DOMAIN scheduledJobs)
  ELSE Cardinality({ j \in jobs : \E c \in DOMAIN scheduledJobs :
                                     j.name = "deliver-joke-" \o String(c) })

\* one step of a scheduler invocation in flight
Step ==
  \E i \in DOMAIN calls :
    \/ AgendaCancel(i)
    \/ AfterCancel(i)
    \/ JobSave(i)
    \/ AfterSave(i)
    \/ AfterLookup(i)

\* one step of a stop in flight
StopStep ==
  \E i \in DOMAIN calls :
    \/ AgendaStop(i)
    \/ AfterStop(i)

\* one step of a deliverJoke invocation in flight
DeliveryStep ==
  \E i \in DOMAIN calls :
    \/ Fetch(i)
    \/ Send(i)
    \/ Update(i)
    \/ Fail(i)

\* one step of a command handler in flight
HandlerStep ==
  \E i \in DOMAIN calls :
    \/ SetFrequency(i)
    \/ AfterSetFrequency(i)

\* RateLimitConfig.telegram.frequency
FrequencyPolicy ==
  [maxRequests |-> 3, windowMs |-> 60000, keyGenerator |-> "default"]

InitAgenda == InitWith(FrequencyPolicy)

\* the scheduler driven through its public methods
NextAgenda ==
  \/ Initialize
  \/ CreateUser
  \/ DisableJokes
  \/ EnableJokes
  \/ ScheduleUserJokes
  \/ CancelUserSchedule
  \/ Start
  \/ StartNext
  \/ DeliverJoke
  \/ Step
  \/ DeliveryStep

SpecAgenda == InitAgenda /\ [][NextAgenda]_vars

\* the /frequency command, beside callers that pass any number
NextFrequency ==
  \/ Initialize
  \/ CreateUser
  \/ ScheduleAnyFrequency
  \/ Frequency
  \/ Step
  \/ HandlerStep

SpecFrequency == InitAgenda /\ [][NextFrequency]_vars

(***************************************************************************)
(* The process constructed over a database that already holds users and    *)
(* job documents, as after a restart: nothing is held in memory yet.       *)
(***************************************************************************)
\* the user documents found in the collection: none, or a user that chose
\* the frequency 5 and has jokes enabled or disabled
StoredUsers ==
  { Absent,
    [exists |-> TRUE, isEnabled |-> TRUE, frequency |-> 5],
    [exists |-> TRUE, isEnabled |-> FALSE, frequency |-> 5] }

\* the job documents found in the collection: one for each chat of S, saved
\* by scheduleUserJokes(c, 5) with the _id c
StoredJobs(S) ==
  { [id |-> c, name |-> "deliver-joke", data |-> [chatId |-> c],
     repeatInterval |-> repeatEvery(5)] : c \in S }

InitStored ==
  /\ now = 0
  /\ config = FrequencyPolicy
  /\ store = <<>>
  /\ log = <<>>
  /\ pending = [ctx \in Contexts(config) |-> 0]
  /\ users \in [ChatIds -> StoredUsers]
  /\ \E S \in SUBSET ChatIds : jobs = StoredJobs(S)
  /\ nextJobId = Cardinality(ChatIds) + 1
  /\ scheduledJobs = <<>>
  /\ calls = <<>>
  /\ starting = [state |-> "idle", queue |-> <<>>]
  /\ last = [c \in ChatIds |-> [op |-> "none", frequency |-> 0]]
  /\ issued = 0
  /\ reply = [c \in ChatIds |-> "none"]
  /\ cronJobs = <<>>
  /\ cronTasks = {}
  /\ nextTaskId = 1
  /\ agenda = "null"
  /\ up = TRUE
  /\ sent = [c \in ChatIds |-> 0]
  /\ logged = {}
  /\ atStop = <<>>
  /\ limiters = <<>>
  /\ heap = <<>>
  /\ got = NoOutcome
  /\ res = NoResponse
  /\ lastSentAt = [c \in ChatIds |-> 0]
  /\ polling = FALSE

\* the scheduler and the job runner of Agenda
NextRunner ==
  \/ Initialize
  \/ ScheduleUserJokes
  \/ CancelUserSchedule
  \/ DeliverJoke
  \/ Step
  \/ DeliveryStep

SpecRunner == InitStored /\ [][NextRunner]_vars

(***************************************************************************)
(* The application over a restart: index.ts initializes the scheduler in   *)
(* the turn that constructs the bot, so that the command handlers and      *)
(* start() run with an Agenda.                                             *)
(***************************************************************************)
\* a subscriber sends /frequency with a number in range, before the restart
Command ==
  /\ atStop = <<>> /\ agenda # "null"
  /\ \E c \in ChatIds : \E n \in Frequencies : HandleFrequency(c, n)

\* JokeScheduler.start of index.ts: agendaScheduler.start() follows initialize()
AppStart == agenda # "null" /\ Start

NextLifecycle ==
  \/ Initialize
  \/ CreateUser
  \/ Command
  \/ HandlerStep
  \/ Step
  \/ Stop
  \/ StopStep
  \/ Restart
  \/ AppStart
  \/ StartNext

SpecLifecycle == InitAgenda /\ [][NextLifecycle]_vars

(***************************************************************************)
(* JokeScheduler: node-cron tasks held in memory.  Its methods have no     *)
(* await, so each runs to completion; only deliverJoke awaits.             *)
(***************************************************************************)
\* the frequencies passed to JokeScheduler.scheduleUserJokes, all in 1..1440
CronFrequencies == {5, 10, 90}

\* the cron expression `*/${frequency} * * * *`: a step on the minute field
cronExpression(f) == <<"*/", f, " * * * *">>

\* the minutes of the hour a step expression on the minute field matches
CronMinutes(expr) == { m \in 0..59 : m % expr[2] = 0 }

\* the task runs every n minutes: from each run the next one is n minutes on
RunsEvery(task, n) ==
  LET runs == CronMinutes(task.expression)
  IN \A m \in runs :
       /\ (m + n) % 60 \in runs
       /\ \A d \in 1..(n - 1) : (m + d) % 60 \notin runs

\* the running cron tasks of a chat
TasksOf(c) == { t \in cronTasks : t.chatId = c }

\* JokeScheduler.cancelUserSchedule: the tasks and the map after it
cronStopped(c) ==
  IF c \in DOMAIN cronJobs
    THEN { t \in cronTasks : t.id # cronJobs[c] }
    ELSE cronTasks

cronDeleted(c) == [k \in DOMAIN cronJobs \ {c} |-> cronJobs[k]]

\* JokeScheduler.scheduleUserJokes
cronSchedule(c, f) ==
  /\ cronTasks' = cronStopped(c) \cup
                    { [id |-> nextTaskId, chatId |-> c,
                       expression |-> cronExpression(f)] }
  /\ cronJobs' = [k \in DOMAIN cronJobs \cup {c} |->
                    IF k = c THEN nextTaskId ELSE cronJobs[k]]
  /\ nextTaskId' = nextTaskId + 1
  /\ last' = [last EXCEPT ![c] = [op |-> "schedule", frequency |-> f]]

CronScheduleUserJokes ==
  /\ up /\ issued < MaxIssued
  /\ \E c \in ChatIds : \E f \in CronFrequencies : cronSchedule(c, f)
  /\ issued' = issued + 1
  /\ UNCHANGED <<limiterVars, users, jobs, nextJobId, scheduledJobs, calls,
                 starting, reply, runVars, guardVars>>

\* JokeScheduler.cancelUserSchedule
cronCancel(c) ==
  /\ cronTasks' = cronStopped(c)
  /\ cronJobs' = cronDeleted(c)
  /\ last' = [last EXCEPT ![c] = [op |-> "cancel", frequency |-> 0]]

CronCancelUserSchedule ==
  /\ up
  /\ \E c \in ChatIds : cronCancel(c)
  /\ UNCHANGED <<limiterVars, users, jobs, nextJobId, scheduledJobs, calls,
                 starting, issued, reply, nextTaskId, runVars, guardVars>>

\* JokeScheduler.start awaits UserService.getAllEnabledUsers
CronStart ==
  /\ up /\ starting.state = "idle"
  /\ starting' = [state |-> "loading", queue |-> getAllEnabledUsers]
  /\ UNCHANGED <<limiterVars, users, jobs, nextJobId, scheduledJobs, calls,
                 last, issued, reply, cronVars, runVars, guardVars>>

\* the loop of JokeScheduler.start: scheduleUserJokes for the next user read
CronStartNext ==
  /\ starting.state = "loading"
  /\ IF starting.queue = <<>>
       THEN /\ starting' = [starting EXCEPT !.state = "started"]
            /\ UNCHANGED <<cronVars, last>>
       ELSE /\ cronSchedule(starting.queue[1][1], starting.queue[1][2])
            /\ starting' = [starting EXCEPT !.queue = Tail(@)]
  /\ UNCHANGED <<limiterVars, users, jobs, nextJobId, scheduledJobs, calls,
                 issued, reply, runVars, guardVars>>

\* a running cron task fires: its callback calls deliverJoke(chatId) and
\* does not await it
CronFire ==
  /\ CanIssue
  /\ \E t \in cronTasks :
       calls' = Append(calls, Call("cron", "none", t.chatId, 0, "lookup"))
  /\ issued' = issued + 1
  /\ UNCHANGED <<limiterVars, users, jobs, nextJobId, scheduledJobs, starting,
                 last, reply, cronVars, runVars, guardVars>>

\* JokeScheduler.testDeliverJoke(chatId) calls deliverJoke
CronTestDeliverJoke ==
  /\ CanIssue
  /\ \E c \in ChatIds :
       calls' = Append(calls, Call("cron", "none", c, 0, "lookup"))
  /\ issued' = issued + 1
  /\ UNCHANGED <<limiterVars, users, jobs, nextJobId, scheduledJobs, starting,
                 last, reply, cronVars, runVars, guardVars>>

\* deliverJoke is entered; it awaits UserService.getUserByChatId
CronDeliverJoke == CronFire \/ CronTestDeliverJoke

\* deliverJoke after the lookup: a missing or disabled user is cancelled and
\* deliverJoke returns, otherwise it goes on to fetch the joke
CronAfterLookup ==
  /\ \E i \in DOMAIN calls :
       /\ calls[i].cmd = "cron" /\ calls[i].pc = "lookup"
       /\ LET c == calls[i].chatId
          IN IF GoneOrDisabled(c)
               THEN /\ cronCancel(c)
                    /\ calls' = Remove(calls, i)
               ELSE /\ calls' = [calls EXCEPT ![i].pc = "fetch"]
                    /\ UNCHANGED <<cronJobs, cronTasks, last>>
  /\ UNCHANGED <<limiterVars, users, jobs, nextJobId, scheduledJobs, starting,
                 issued, reply, nextTaskId, runVars, guardVars>>

NextCron ==
  \/ CreateUser
  \/ DisableJokes
  \/ EnableJokes
  \/ CronScheduleUserJokes
  \/ CronCancelUserSchedule
  \/ CronStart
  \/ CronStartNext
  \/ CronDeliverJoke
  \/ CronAfterLookup
  \/ DeliveryStep

SpecCron == InitAgenda /\ [][NextCron]_vars

\* the deliveries of both schedulers: the handler runs of Agenda and the
\* callbacks of the cron tasks, on the same users and collaborators
NextDelivery ==
  \/ Initialize
  \/ DeliverJoke
  \/ Step
  \/ CronScheduleUserJokes
  \/ CronDeliverJoke
  \/ CronAfterLookup
  \/ DeliveryStep

SpecDelivery == InitStored /\ [][NextDelivery]_vars

(***************************************************************************)
(* What the history of calls says, computed from the call times alone.     *)
(***************************************************************************)
Keys == { log[i].key : i \in DOMAIN log }

\* the calls made for key k, in order
Calls(k) == SelectSeq(log, LAMBDA e : e.key = k)

\* the index in s of the call that opened the window call i falls in: the
\* first call opens a window, and so does every call made windowMs or more
\* after the call that opened the window before it
RECURSIVE StartOf(_, _)
StartOf(s, i) ==
  IF i = 1 THEN 1
  ELSE LET j == StartOf(s, i - 1)
       IN IF s[i].time >= s[j].time + config.windowMs THEN i ELSE j

\* the position of call i inside its window, counted from 1
Nth(s, i) == i - StartOf(s, i) + 1

\* the allowed calls among s[a..b]
AllowedIn(s, a, b) == { i \in a..b : s[i].result.isAllowed }

(***************************************************************************)
(* C1: the first maxRequests calls for an identifier inside one window     *)
(* are all allowed, and the next call inside the same window is rejected   *)
(* with retryAfter > 0.                                                    *)
(***************************************************************************)
C1_FirstNAllowed ==
  \A k \in Keys :
    LET s == Calls(k)
    IN \A i \in DOMAIN s :
         /\ Nth(s, i) <= config.maxRequests => s[i].result.isAllowed
         /\ Nth(s, i) = config.maxRequests + 1 =>
              /\ ~s[i].result.isAllowed
              /\ s[i].result.retryAfter # Undefined
              /\ s[i].result.retryAfter[1] > 0

\* a call number maxRequests + 1 of a window has been made
C1_Witness ==
  \E k \in Keys :
    LET s == Calls(k)
    IN \E i \in DOMAIN s : Nth(s, i) = config.maxRequests + 1

(***************************************************************************)
(* C2: sliding window: every interval of length windowMs holds at most     *)
(* maxRequests allowed calls of one identifier.  (It is enough to look at  *)
(* the intervals that start at an allowed call.)                           *)
(***************************************************************************)
C2_SlidingWindow ==
  \A k \in Keys :
    LET s == Calls(k)
    IN \A i \in DOMAIN s :
         s[i].result.isAllowed =>
           Cardinality({ j \in DOMAIN s :
                           /\ s[j].result.isAllowed
                           /\ s[i].time <= s[j].time
                           /\ s[j].time < s[i].time + config.windowMs })
             <= config.maxRequests

(***************************************************************************)
(* C3: once now >= resetTime of an entry, the next checkLimit for that     *)
(* identifier is allowed, and in the same step the entry's count becomes 1 *)
(* and its resetTime becomes now + windowMs.                               *)
(***************************************************************************)
\* this step is a checkLimit call for key k
IsCheck(k) ==
  /\ Len(log') = Len(log) + 1
  /\ log'[Len(log')].op = "check"
  /\ log'[Len(log')].key = k

C3_ResetAfterExpiry ==
  [][\A k \in DOMAIN store :
       (now >= store[k].resetTime /\ IsCheck(k)) =>
         /\ log'[Len(log')].result.isAllowed
         /\ store'[k].requests = 1
         /\ store'[k].resetTime = now + config.windowMs]_vars

\* the last call found its entry expired (and not yet swept)
C3_Witness ==
  /\ Len(log) >= 2
  /\ \E i \in 1..(Len(log) - 1) :
       /\ log[i].key = log[Len(log)].key
       /\ \A j \in (i + 1)..(Len(log) - 1) : log[j].key # log[i].key
       /\ log[Len(log)].time >= log[i].result.resetTime
       /\ log[Len(log)].time <= log[i].result.resetTime + config.windowMs
       /\ ~log[i].result.isAllowed

(***************************************************************************)
(* C4: two distinct keys of one limiter never influence each other: a      *)
(* checkLimit for one key leaves the entry of every other key unchanged,   *)
(* and the results a key receives are those of a limiter that serves this  *)
(* key alone.  Also for keys made by a custom keyGenerator.                *)
(***************************************************************************)
\* the results of a limiter that receives only the calls s, from entry d
RECURSIVE Alone(_, _, _)
Alone(s, i, d) ==
  IF i > Len(s) THEN <<>>
  ELSE LET e == Window(d, s[i].time, config)
       IN <<Result(e, s[i].time, config)>> \o Alone(s, i + 1, e)

ResultsOf(s) == [i \in DOMAIN s |-> s[i].result]

C4_KeyAlone ==
  \A k \in Keys :
    LET s == Calls(k)
    IN ResultsOf(s) =
         Alone(s, 1, [requests |-> 0,
                      resetTime |-> s[1].time + config.windowMs])

C4_Frame ==
  [][\A k \in DOMAIN store :
       (\E c \in Keys' : c # k /\ IsCheck(c)) =>
         (k \in DOMAIN store' /\ store'[k] = store[k])]_vars

C4_KeysIndependent == []C4_KeyAlone /\ C4_Frame

\* under a custom key generator one key is over its quota while another
\* key of the same user still has quota left
C4_Witness ==
  /\ config.keyGenerator = "custom"
  /\ \E a \in DOMAIN store : \E b \in DOMAIN store :
       /\ a # b
       /\ store[a].requests > config.maxRequests
       /\ store[b].requests = 1
       /\ log[Len(log)].key = b
       /\ log[Len(log)].result.isAllowed

(***************************************************************************)
(* C5: checks on one key that run as concurrent tasks lose no update:      *)
(* after m calls for the key inside one window the stored count is m and   *)
(* exactly min(m, maxRequests) of them were allowed.                       *)
(***************************************************************************)
C5_NoLostUpdate ==
  \A k \in Keys :
    LET s == Calls(k)
        m == Nth(s, Len(s))
    IN /\ k \in DOMAIN store
       /\ store[k].requests = m
       /\ Cardinality(AllowedIn(s, StartOf(s, Len(s)), Len(s)))
            = Min(m, config.maxRequests)

\* every queued task has run, more of them than the quota in one window
C5_Witness ==
  /\ Queued = 0
  /\ \E k \in Keys :
       Nth(Calls(k), Len(Calls(k))) >= config.maxRequests + 2

(***************************************************************************)
(* C6: every result has isAllowed iff count <= maxRequests, remaining =    *)
(* max(0, maxRequests - count), and retryAfter present exactly when        *)
(* rejected, equal to ceil((resetTime - now) / 1000).  With maxRequests =  *)
(* 5, windowMs = 5000 and 6 calls within one second: 5 allowed, then 1     *)
(* rejected whose retryAfter is 4 or 5.                                    *)
(***************************************************************************)
C6_ResultShape ==
  \A k \in Keys :
    LET s == Calls(k)
    IN \A i \in DOMAIN s :
         LET r     == s[i].result
             count == Nth(s, i)
             left  == s[StartOf(s, i)].time + config.windowMs - s[i].time
         IN /\ r.isAllowed <=> count <= config.maxRequests
            /\ r.remaining = IF config.maxRequests >= count
                               THEN config.maxRequests - count ELSE 0
            /\ r.isAllowed <=> r.retryAfter = Undefined
            /\ ~r.isAllowed =>
                 /\ r.retryAfter[1] * 1000 >= left
                 /\ (r.retryAfter[1] - 1) * 1000 < left

C6_Scenario ==
  (config.maxRequests = 5 /\ config.windowMs = 5000) =>
    LET s == Calls("u1")
    IN (Len(s) >= 6 /\ s[6].time - s[1].time <= 1000) =>
         /\ \A i \in 1..5 : s[i].result.isAllowed
         /\ ~s[6].result.isAllowed
         /\ s[6].result.retryAfter \in {<<4>>, <<5>>}

C6_Results == C6_ResultShape /\ C6_Scenario

\* the scenario has run: the 6th call within a second, with retryAfter 4
C6_Witness ==
  /\ config.maxRequests = 5
  /\ LET s == Calls("u1")
     IN /\ Len(s) >= 6
        /\ s[6].time - s[1].time <= 1000
        /\ s[6].result.retryAfter = <<4>>

(***************************************************************************)
(* C7: when schedule(key, n) with n in 1..1440 has completed, the key has  *)
(* exactly one active job, with interval n; the job of an earlier schedule *)
(* call is gone.  (JokeScheduler: the job is the running cron task.)       *)
(***************************************************************************)
C7_OneJobWithInterval ==
  \A c \in ChatIds :
    (last[c].op = "schedule" /\ ValidFrequency(last[c].frequency)) =>
      /\ Cardinality(TasksOf(c)) = 1
      /\ c \in DOMAIN cronJobs
      /\ \A t \in TasksOf(c) :
           /\ t.id = cronJobs[c]
           /\ RunsEvery(t, last[c].frequency)

(***************************************************************************)
(* C8: in every reachable state there is at most one active job record per *)
(* subscriber key.                                                         *)
(***************************************************************************)
C8_AtMostOneJob == \A c \in ChatIds : Cardinality(JobsOf(c)) <= 1

(***************************************************************************)
(* C9: schedule(key, n) with n outside 1..1440 fails, and no job record    *)
(* and no stored user interval is created or altered: no step of such a    *)
(* call changes the job store, the local tracking or the users.            *)
(***************************************************************************)
\* invocation i is a schedule call with a frequency out of range
OutOfRange(i) == calls[i].op = "schedule" /\ ~(calls[i].frequency \in 1..1440)

C10_LastIssuedWins ==
  \A c \in ChatIds :
    (\A i \in DOMAIN calls : calls[i].chatId # c) =>
      /\ last[c].op = "schedule" =>
           /\ Cardinality(JobsOf(c)) = 1
           /\ \A j \in JobsOf(c) : IntervalMinutes(j) = last[c].frequency
      /\ last[c].op = "cancel" => JobsOf(c) = {}

(***************************************************************************)
(* C11: cancel(key) on a key that has no active job is a no-op: it raises  *)
(* no error and leaves the job store and the local tracking of every key   *)
(* unchanged; a second cancel does what the first did.                     *)
(***************************************************************************)
\* the job store holds no record of key c
NoRecord(c) == \A j \in jobs : j.data.chatId # c

\* the records the job store holds of the keys other than c
RecordsBeside(c) == { j \in jobs : j.data.chatId # c }

\* the local tracking of the keys other than c
TrackingBeside(c) == [k \in DOMAIN scheduledJobs \ {c} |-> scheduledJobs[k]]

\* cancelUserSchedule(c) is called for a key without a job
CancelOfNothing(c) ==
  /\ CanIssue
  /\ NoRecord(c) /\ c \notin DOMAIN scheduledJobs
  /\ cancelUserSchedule(c)

\* invocation i is a cancel of a key that has no record and is not tracked
CancelsNothing(i) ==
  /\ calls[i].op = "cancel"
  /\ NoRecord(calls[i].chatId)
  /\ calls[i].chatId \notin DOMAIN scheduledJobs

IsDelivery(i) == calls[i].cmd \in {"job", "test"}

\* the invocation issued by this step is the handler of a job of chat c
RunsJobOf(c) ==
  /\ RunJob
  /\ calls'[Len(calls')].chatId = c

\* C12: a deliverJoke that has looked up a missing or disabled user goes on
\* to cancel and sends nothing, then and later; its agenda.cancel leaves no
\* record of the key; the handler of a job only runs for a key that has a
\* record, and a record of a key without one only comes from the job.save
\* of a schedule call for that key
C12_SelfCancel ==
  [][/\ \A i \in DOMAIN calls :
          /\ ( /\ IsDelivery(i) /\ agenda # "null"
               /\ ~(users[calls[i].chatId].exists /\ users[calls[i].chatId].isEnabled)
               /\ AfterLookup(i) ) =>
               /\ calls'[i].op = "cancel" /\ calls'[i].pc = "cancel"
               /\ sent' = sent
          /\ (IsDelivery(i) /\ calls[i].op = "cancel") =>
               /\ ~Fetch(i) /\ ~Send(i) /\ ~Update(i)
               /\ AgendaCancel(i) => \A c \in {calls[i].chatId} : NoRecord(c)'
     /\ \A c \in ChatIds :
          /\ RunsJobOf(c) => ~NoRecord(c)
          /\ (NoRecord(c) /\ ~NoRecord(c)') =>
               \E i \in DOMAIN calls :
                 /\ calls[i].chatId = c /\ calls[i].op = "schedule"
                 /\ JobSave(i)]_vars

\* the handler of the job of a disabled subscriber has run agenda.cancel: the
\* key has no record left and nothing was sent to the chat
C12_Witness ==
  \E i \in DOMAIN calls :
    /\ calls[i].cmd = "job" /\ calls[i].op = "cancel"
    /\ calls[i].pc = "cancelled"
    /\ users[calls[i].chatId].exists /\ ~users[calls[i].chatId].isEnabled
    /\ NoRecord(calls[i].chatId)
    /\ sent[calls[i].chatId] = 0

JobsAtStop(c) == { j \in atStop[1] : j.data.chatId = c }

\* C15 as stated: once start() has returned in the restarted process, a
\* subscriber who had a job and is enabled has one job, with the interval
\* the job had before
C15_SchedulesSurviveRestart ==
  (atStop # <<>> /\ starting.state = "started" /\ calls = <<>>) =>
    \A c \in ChatIds :
      (JobsAtStop(c) # {} /\ users[c].exists /\ users[c].isEnabled) =>
        /\ Cardinality(JobsOf(c)) = 1
        /\ \A j0 \in JobsAtStop(c) : \A j \in JobsOf(c) :
             IntervalMinutes(j) = IntervalMinutes(j0)

(***************************************************************************)
(* C17: at no time are two handler invocations for the same subscriber key *)
(* in flight together: a due job whose key is already executing, from an   *)
(* earlier poll or from a manual test trigger, is skipped for that round.  *)
(***************************************************************************)
\* C17 as stated, for the handler of a due job: while the handler of a job
\* is in flight no other deliverJoke invocation, of a job or of a test
\* trigger, is in flight for the same chat
C17_OneInvocationPerKey ==
  \A i \in DOMAIN calls : \A k \in DOMAIN calls :
    (i # k /\ calls[i].cmd = "job" /\ IsDelivery(k)) =>
      calls[i].chatId # calls[k].chatId

(***************************************************************************)
(* C18: runNow(key) (testDeliverJoke) invokes the handler immediately and  *)
(* does not alter the schedule: for every key and every user state the job *)
(* record of the key is the same after runNow as before.                   *)
(***************************************************************************)
\* invocation i takes a step
StepOf(i) ==
  \/ AfterLookup(i)
  \/ AgendaCancel(i)
  \/ AfterCancel(i)
  \/ Fetch(i)
  \/ Send(i)
  \/ Update(i)
  \/ Fail(i)

\* the user of invocation i exists and has jokes enabled
ForSubscriber(i) ==
  users[calls[i].chatId].exists /\ users[calls[i].chatId].isEnabled

\* C18 as stated: testDeliverJoke starts deliverJoke at once, and no step
\* of that invocation changes a job record, whatever the user's state
C18_RunNowKeepsSchedule ==
  [][/\ TestDeliverJoke =>
          /\ calls'[Len(calls')].pc = "lookup"
          /\ jobs' = jobs
     /\ \A i \in DOMAIN calls :
          (calls[i].cmd = "test" /\ StepOf(i)) => jobs' = jobs]_vars

\* C18, by the user's state: testDeliverJoke starts deliverJoke at once; for
\* a user who exists and is enabled the invocation goes on to the delivery
\* and none of its steps changes a job record or the tracking; only for a
\* missing or disabled user it turns into a cancel, which removes the
\* records of that key and of no other
C18_RunNowByUserState ==
  [][/\ TestDeliverJoke =>
          /\ calls'[Len(calls')].pc = "lookup"
          /\ UNCHANGED <<jobs, scheduledJobs>>
     /\ \A i \in DOMAIN calls :
          calls[i].cmd = "test" =>
            /\ (ForSubscriber(i) /\ AfterLookup(i)) =>
                 /\ Len(calls') = Len(calls)
                 /\ calls'[i].pc = "fetch" /\ calls'[i].op = "none"
            /\ (calls[i].op # "cancel" /\ StepOf(i)) =>
                 UNCHANGED <<jobs, scheduledJobs>>
            /\ (~ForSubscriber(i) /\ agenda # "null" /\ AfterLookup(i)) =>
                 calls'[i].op = "cancel"
            /\ (calls[i].op = "cancel" /\ AgendaCancel(i)) =>
                 \A c \in {calls[i].chatId} :
                   /\ NoRecord(c)'
                   /\ RecordsBeside(c)' = RecordsBeside(c)]_vars

\* a test delivery to an enabled subscriber has sent its joke and the job
\* record the subscriber had is still stored, with its interval
C18_Witness ==
  \E i \in DOMAIN calls :
    /\ calls[i].cmd = "test" /\ calls[i].pc = "update"
    /\ ForSubscriber(i)
    /\ sent[calls[i].chatId] = 1
    /\ JobsOf(calls[i].chatId) = StoredJobs({calls[i].chatId})
    /\ \A j \in JobsOf(calls[i].chatId) : IntervalMinutes(j) = 5

(***************************************************************************)
(* C19: activeCount() (getActiveScheduleCount) returns exactly the number  *)
(* of subscribers that currently have an active job record, after any      *)
(* sequence of schedule, cancel, handler self-cancel and stop operations.  *)
(***************************************************************************)
\* the subscribers that have a job record
Scheduled == { c \in ChatIds : \E j \in jobs : j.data.chatId = c }

\* C19 as stated, on a scheduler that is initialized and has no operation
\* in flight: getActiveScheduleCount returns the number of subscribers that
\* have a job record
C19_ActiveCount ==
  (agenda # "null" /\ calls = <<>>) =>
    getActiveScheduleCount = Cardinality(Scheduled)

(***************************************************************************)
(* C20: canceling a job while its handler is mid-execution does not        *)
(* interrupt the in-flight handler call (the delivery in progress still    *)
(* completes); it only prevents later polls from starting the job again,   *)
(* and the completion of the in-flight handler does not bring the canceled *)
(* job back.                                                               *)
(***************************************************************************)
\* r is a deliverJoke invocation
DeliveryRecord(r) == r.cmd \in {"job", "test", "cron"}

\* the deliverJoke invocations in flight, with the point each has reached
Deliveries(s) == SelectSeq(s, DeliveryRecord)

\* invocation i is a call of cancelUserSchedule by a command or a caller
IsCancel(i) == calls[i].cmd = "api" /\ calls[i].op = "cancel"

\* C20: no step of a cancelUserSchedule call, from the call to its return,
\* changes a deliverJoke invocation in flight, takes back a joke or stops
\* the process; no step of a delivery adds or changes a job record; and the
\* handler of a job is only started for a key that has a record
C20_CancelKeepsHandler ==
  [][/\ CancelUserSchedule => Deliveries(calls') = Deliveries(calls)
     /\ \A i \in DOMAIN calls :
          /\ (IsCancel(i) /\ (AgendaCancel(i) \/ AfterCancel(i))) =>
               /\ Deliveries(calls') = Deliveries(calls)
               /\ UNCHANGED <<sent, up, agenda>>
          /\ (IsDelivery(i) /\ calls[i].op = "none" /\ StepOf(i)) =>
               jobs' = jobs
     /\ \A c \in ChatIds : RunsJobOf(c) => \E j \in jobs : j.data.chatId = c]_vars

\* the job of a subscriber was canceled while its handler was in flight:
\* the cancel has returned, the key has no record, and the handler has gone
\* on and sent its joke
C20_Witness ==
  \E k \in DOMAIN calls :
    /\ Len(calls) = 1
    /\ calls[k].cmd = "job" /\ calls[k].op = "none" /\ calls[k].pc = "update"
    /\ sent[calls[k].chatId] = 1
    /\ last[calls[k].chatId].op = "cancel"
    /\ NoRecord(calls[k].chatId)
    /\ ForSubscriber(k)

(***************************************************************************)
(* C21: termination of the 'deliver-joke' handler.                         *)
(***************************************************************************)
\* a step of an invocation that awaits the database or the event loop only:
\* the lookup, the cancel and the save return, and updateLastSentAt returns
\* or throws
LocalStep ==
  \/ Step
  \/ \E i \in DOMAIN calls : calls[i].pc = "update" /\ (Update(i) \/ Fail(i))

\* the runner under the scheduling the code gives: a continuation whose
\* awaited database call has returned is run by the event loop.  Nothing
\* makes JokeService.getFormattedJoke or botService.sendJoke return: they
\* are awaited with no timer beside them, and the Agenda options set none
SpecRunnerFair == SpecRunner /\ WF_vars(LocalStep)

\* a deliverJoke invocation for chat c is in flight
Delivering(c) ==
  \E i \in DOMAIN calls : IsDelivery(i) /\ calls[i].chatId = c

\* C21: every invocation of the handler eventually settles (returns or
\* fails): whenever a deliverJoke invocation for a chat is in flight, a
\* later state has none in flight for that chat, also when the joke fetch or
\* the delivery to the chat never returns
C21_HandlerSettles ==
  \A c \in ChatIds : Delivering(c) ~> ~Delivering(c)

(***************************************************************************)
(* The registry of rate limiters (RateLimiterManager) and the bot's rate   *)
(* check in front of every command handler.                                *)
(***************************************************************************)
\* bound of the model: the RateLimiter objects constructed in one behaviour
MaxObjects == 28

\* bound of the model: the commands checked against the registry's limiters
MaxRequests == 2

\* a policy of RateLimitConfig, with the default key generator
Policy(n, w) == [maxRequests |-> n, windowMs |-> w, keyGenerator |-> "default"]

\* the names initializeAll registers, in its order
InitializeOrder ==
  << "api:health", "api:status", "telegram:command", "telegram:start",
     "telegram:enable", "telegram:disable", "telegram:frequency",
     "telegram:status", "telegram:help", "telegram:test",
     "db:user-creation", "db:user-update", "scheduler:creation" >>

\* RateLimitConfig: the policy initializeAll registers under each name
PolicyOf(name) ==
  CASE name = "api:health"         -> Policy(30, 60000)
    [] name = "api:status"         -> Policy(20, 60000)
    [] name = "telegram:command"   -> Policy(5, 5000)
    [] name = "telegram:start"     -> Policy(3, 60000)
    [] name = "telegram:enable"    -> Policy(5, 60000)
    [] name = "telegram:disable"   -> Policy(5, 60000)
    [] name = "telegram:frequency" -> Policy(3, 60000)
    [] name = "telegram:status"    -> Policy(10, 60000)
    [] name = "telegram:help"      -> Policy(20, 60000)
    [] name = "telegram:test"      -> Policy(20, 60000)
    [] name = "db:user-creation"   -> Policy(100, 3600000)
    [] name = "db:user-update"     -> Policy(500, 3600000)
    [] name = "scheduler:creation" -> Policy(50, 60000)

\* new RateLimiter(config): an empty store, and startCleanup has set the
\* interval timer
NewLimiter(cfg) == [config |-> cfg, store |-> <<>>, cleanupInterval |-> TRUE]

\* RateLimiter.destroy: the timer is cleared and the store emptied
destroy(obj) == [obj EXCEPT !.cleanupInterval = FALSE, !.store = <<>>]

\* RateLimiterManager.has(name)
has(name) == name \in DOMAIN limiters

\* the objects the registry refers to
Registered == { limiters[n] : n \in DOMAIN limiters }

\* limiters.set(name, id)
SetLimiter(m, name, id) ==
  [n \in DOMAIN m \cup {name} |-> IF n = name THEN id ELSE m[n]]

\* RateLimiterManager.register(name, config): a new limiter is constructed
\* and put under the name; a limiter already there is left as it is
register(name, cfg) ==
  /\ heap' = Append(heap, NewLimiter(cfg))
  /\ limiters' = SetLimiter(limiters, name, Len(heap) + 1)

\* the names and the policy the callers of register use
RegisterNames == {"telegram:help", "custom"}
RegisterPolicy == Policy(2, 1500)

Register ==
  /\ Len(heap) < MaxObjects /\ issued < MaxIssued
  /\ \E name \in RegisterNames : register(name, RegisterPolicy)
  /\ issued' = issued + 1
  /\ got' = NoOutcome
  /\ UNCHANGED <<limiterVars, users, jobs, nextJobId, scheduledJobs, calls,
                 starting, last, reply, cronVars, runVars, res,
                 lastSentAt, polling>>

\* the position of a name in InitializeOrder
OrderOf(name) == CHOOSE i \in DOMAIN InitializeOrder : InitializeOrder[i] = name

\* RateLimiterManager.initializeAll: thirteen register calls
initializeAll ==
  /\ Len(heap) + Len(InitializeOrder) <= MaxObjects
  /\ heap' = heap \o [i \in DOMAIN InitializeOrder |->
                        NewLimiter(PolicyOf(InitializeOrder[i]))]
  /\ limiters' =
       LET new == { InitializeOrder[i] : i \in DOMAIN InitializeOrder }
       IN [n \in DOMAIN limiters \cup new |->
             IF n \in new THEN Len(heap) + OrderOf(n) ELSE limiters[n]]
  /\ got' = NoOutcome

InitializeAll ==
  /\ initializeAll
  /\ UNCHANGED <<limiterVars, agendaVars, cronVars, runVars, res,
                 lastSentAt, polling>>

\* the names looked up: registered by initializeAll, by register only, never
LookupNames == {"telegram:help", "custom", "telegram:jobstatus"}

\* a lookup that gives undefined for an absent name and never throws
getOrUndefined(op, name) ==
  [op |-> op, name |-> name, found |-> has(name), thrown |-> FALSE,
   id |-> IF has(name) THEN limiters[name] ELSE 0, allowed |-> FALSE]

\* RateLimiterManager.get(name): the limiter, or the error
\* `Rate limiter '${name}' not found`
get(op, name) ==
  [op |-> op, name |-> name, found |-> has(name), thrown |-> ~has(name),
   id |-> IF has(name) THEN limiters[name] ELSE 0, allowed |-> FALSE]

Get ==
  /\ \E name \in LookupNames : got' = get("get", name)
  /\ UNCHANGED <<limiterVars, agendaVars, cronVars, runVars, limiters, heap,
                 res,
                 lastSentAt, polling>>

\* a caller that asks has(name) and calls get(name) when it is true
GetIfHas ==
  /\ \E name \in LookupNames :
       got' = IF has(name)
                THEN get("guarded get", name)
                ELSE [NoOutcome EXCEPT !.op = "has", !.name = name]
  /\ UNCHANGED <<limiterVars, agendaVars, cronVars, runVars, limiters, heap,
                 res,
                 lastSentAt, polling>>

\* RateLimiterManager.cleanupAll: every limiter of the map is destroyed, then
\* the map is cleared
CleanupAll ==
  /\ heap' = [i \in DOMAIN heap |->
                IF i \in Registered THEN destroy(heap[i]) ELSE heap[i]]
  /\ limiters' = <<>>
  /\ got' = [NoOutcome EXCEPT !.op = "cleanupAll"]
  /\ UNCHANGED <<limiterVars, agendaVars, cronVars, runVars, res,
                 lastSentAt, polling>>

\* the context checkRateLimit passes: { identifier: String(chatId) }
ChatContext(c) == [identifier |-> String(c), userId |-> "", action |-> ""]

\* limiter.checkLimit(ctx) on the limiter object id of the registry
CheckOn(id, ctx) ==
  LET obj  == heap[id]
      key  == keyGenerator(obj.config, ctx)
      data == Window(Entry(obj.store, key, now, obj.config), now, obj.config)
  IN [store |-> StoreAfter(obj.store, key, data),
      result |-> Result(data, now, obj.config)]

\* the limiter checkRateLimit asks for a command: `telegram:${commandName}`
\* when the registry has it, the general 'telegram:command' otherwise
LimiterFor(commandName) ==
  IF has("telegram:" \o commandName)
    THEN "telegram:" \o commandName
    ELSE "telegram:command"

\* TelegramBotService.checkRateLimit(chatId, commandName): the outcome left
\* in got, the request counted by the limiter asked and its result added to
\* the history
checkRateLimit(c, commandName) ==
  LET name == LimiterFor(commandName)
      g    == get("checkRateLimit", name)
  IN IF g.thrown
       THEN /\ got' = g
            /\ UNCHANGED <<heap, log>>
       ELSE LET r == CheckOn(g.id, ChatContext(c))
            IN /\ heap' = [heap EXCEPT ![g.id].store = r.store]
               /\ got' = [g EXCEPT !.allowed = r.result.isAllowed]
               /\ log' = Append(log, [op |-> "check", key |-> String(c),
                                      time |-> now, result |-> r.result])

\* the rate-limit message is sent by checkRateLimit when the limiter of the
\* command itself rejects; the fallback limiter rejects silently
SaysRateLimited(commandName) ==
  ~got'.thrown /\ ~got'.allowed /\ got'.name = "telegram:" \o commandName

\* the model has room for a handler that awaits: it begins one when no other
\* is in flight
CanAwait == CanIssue /\ calls = <<>>

\* a handler that goes on after the rate check has rejected
HandleAnyway(c, name, limiter, said, first, f) ==
  /\ checkRateLimit(c, limiter)
  /\ reply' = [reply EXCEPT ![c] = IF said = "" THEN @ ELSE said]
  /\ logged' = logged
  /\ IF first = ""
       THEN UNCHANGED <<calls, issued>>
       ELSE /\ CanAwait
            /\ calls' = Append(calls, Call(name, "none", c, f, first))
            /\ issued' = issued + 1

\* a command handler up to its first await: the rate check; when get throws,
\* the catch of the handler (that of handleHelp only logs); when the check
\* rejects, return; otherwise the message `said` if any, /frequency's range
\* check, and the call awaited first, if any
Handle(c, name, limiter, said, first, f) ==
  /\ checkRateLimit(c, limiter)
  /\ IF got'.thrown
       THEN /\ reply' = [reply EXCEPT
                           ![c] = IF name = "help" THEN @ ELSE "error"]
            /\ logged' = Report(c, name)
            /\ UNCHANGED <<calls, issued>>
       ELSE IF ~got'.allowed
         THEN /\ reply' = [reply EXCEPT
                             ![c] = IF SaysRateLimited(limiter)
                                      THEN "rate limited" ELSE @]
              /\ UNCHANGED <<calls, issued, logged>>
         ELSE IF name = "frequency" /\ ~ValidFrequency(f)
           THEN /\ reply' = [reply EXCEPT ![c] = "range"]
                /\ UNCHANGED <<calls, issued, logged>>
           ELSE /\ reply' = [reply EXCEPT ![c] = IF said = "" THEN @ ELSE said]
                /\ logged' = logged
                /\ IF first = ""
                     THEN UNCHANGED <<calls, issued>>
                     ELSE /\ CanAwait
                          /\ calls' = Append(calls, Call(name, "none", c, f, first))
                          /\ issued' = issued + 1

\* what a command leaves alone before its first await
HandleFrame ==
  UNCHANGED <<now, config, store, pending, users, jobs, nextJobId,
              scheduledJobs, starting, last, cronVars, agenda, up, sent,
              atStop, limiters, res,
                 lastSentAt, polling>>

\* initialize() of index.ts constructs the bot after initializeAll has run;
\* gracefulShutdown stops the polling after cleanupAll, awaiting it
BotRuns == heap # <<>>

\* TelegramBotService.handleHelp: the rate check, then the help message
handleHelp(c) == Handle(c, "help", "help", "help", "", 0)

HandleHelp ==
  /\ Len(log) < MaxRequests /\ BotRuns
  /\ \E c \in ChatIds : handleHelp(c)
  /\ HandleFrame

\* the lookups of the registry between initializeAll and cleanupAll, with
\* traffic through one command handler
NextRegistry ==
  \/ InitializeAll
  \/ Get
  \/ GetIfHas
  \/ CleanupAll
  \/ HandleHelp

SpecRegistry == InitAgenda /\ [][NextRegistry]_vars

\* the limiters the registry creates and destroys, with traffic through one
\* command handler
NextLimiters ==
  \/ InitializeAll
  \/ Register
  \/ CleanupAll
  \/ HandleHelp

SpecLimiters == InitAgenda /\ [][NextLimiters]_vars

(***************************************************************************)
(* The command handlers of the bot, behind the rate check.                 *)
(***************************************************************************)
\* bound of the model: the commands handled in one behaviour
MaxCommands == 2

\* TelegramBotService.handleStart: then UserService.findOrCreateUser
handleStart(c) == Handle(c, "start", "start", "", "findOne", 0)

\* TelegramBotService.handleEnable: then UserService.getUserByChatId
handleEnable(c) == Handle(c, "enable", "enable", "", "getUser", 0)

\* TelegramBotService.handleDisable: then UserService.getUserByChatId
handleDisable(c) == Handle(c, "disable", "disable", "", "getUser", 0)

\* TelegramBotService.handleFrequency: the range check, then
\* UserService.setFrequency
handleFrequency(c, n) ==
  Handle(c, "frequency", "frequency", "", "setFrequency", n)

\* TelegramBotService.handleStatus: then UserService.getUserByChatId
handleStatus(c) == Handle(c, "status", "status", "", "getUser", 0)

\* TelegramBotService.handleTest: a message, then testDeliverJoke, which
\* enters deliverJoke
handleTest(c) == Handle(c, "test", "test", "testing", "lookup", 0)

\* TelegramBotService.handleJobStatus: checked against the limiter of
\* /status; a message, then AgendaScheduler.getStatus, which returns at once
\* without an Agenda and awaits agenda.jobs({}) otherwise
handleJobStatus(c) ==
  IF agenda = "null"
    THEN Handle(c, "jobstatus", "status", "logged", "", 0)
    ELSE Handle(c, "jobstatus", "status", "checking", "jobs", 0)

\* a command can be handled: the bot polls, and the model has room for it
CanHandle == up /\ BotRuns /\ Len(log) < MaxCommands

HandleStart ==
  /\ CanHandle
  /\ \E c \in ChatIds : handleStart(c)
  /\ HandleFrame

HandleEnable ==
  /\ CanHandle
  /\ \E c \in ChatIds : handleEnable(c)
  /\ HandleFrame

HandleDisable ==
  /\ CanHandle
  /\ \E c \in ChatIds : handleDisable(c)
  /\ HandleFrame

FrequencyCommand ==
  /\ CanHandle
  /\ \E c \in ChatIds : \E n \in FreqInputs : handleFrequency(c, n)
  /\ HandleFrame

HandleStatus ==
  /\ CanHandle
  /\ \E c \in ChatIds : handleStatus(c)
  /\ HandleFrame

HelpCommand ==
  /\ CanHandle
  /\ \E c \in ChatIds : handleHelp(c)
  /\ HandleFrame

HandleTest ==
  /\ CanHandle
  /\ \E c \in ChatIds : handleTest(c)
  /\ HandleFrame

HandleJobStatus ==
  /\ CanHandle
  /\ \E c \in ChatIds : handleJobStatus(c)
  /\ HandleFrame

\* what a step of a command handler leaves alone
StepFrame ==
  UNCHANGED <<limiterVars, nextJobId, scheduledJobs, starting, issued,
              cronVars, agenda, up, sent, atStop, guardVars>>

\* the handler of invocation i sends the message and returns
Says(i, what) ==
  /\ calls' = Remove(calls, i)
  /\ reply' = [reply EXCEPT ![calls[i].chatId] = what]

\* findOrCreateUser after User.findOne: the user found, or User.create
FindOne(i) ==
  /\ calls[i].cmd = "start" /\ calls[i].pc = "findOne"
  /\ IF users[calls[i].chatId].exists
       THEN Says(i, "welcome")
       ELSE /\ calls' = [calls EXCEPT ![i].pc = "create"]
            /\ reply' = reply
  /\ UNCHANGED <<users, jobs, last, logged>>
  /\ StepFrame

\* the database runs User.create({chatId, isEnabled: true, frequency: 1});
\* chatId is unique, a second document for the chat is an error
Create(i) ==
  /\ calls[i].cmd = "start" /\ calls[i].pc = "create"
  /\ LET c == calls[i].chatId
     IN IF users[c].exists
          THEN /\ Says(i, "error")
               /\ logged' = Report(c, "start")
               /\ users' = users
          ELSE /\ Says(i, "welcome")
               /\ users' = [users EXCEPT
                              ![c] = [exists |-> TRUE, isEnabled |-> TRUE,
                                      frequency |-> 1]]
               /\ logged' = logged
  /\ UNCHANGED <<jobs, last>>
  /\ StepFrame

\* handleEnable, handleDisable and handleStatus after getUserByChatId: the
\* early returns for a missing user and for a user already in the state
\* asked for
GetUser(i) ==
  /\ calls[i].cmd \in {"enable", "disable", "status"}
  /\ calls[i].pc = "getUser"
  /\ LET c == calls[i].chatId
     IN IF ~users[c].exists
          THEN Says(i, "not found")
          ELSE CASE calls[i].cmd = "status" -> Says(i, "status")
                 [] calls[i].cmd = "enable" ->
                      IF users[c].isEnabled
                        THEN Says(i, "already enabled")
                        ELSE /\ calls' = [calls EXCEPT ![i].pc = "enableJokes"]
                             /\ reply' = reply
                 [] calls[i].cmd = "disable" ->
                      IF ~users[c].isEnabled
                        THEN Says(i, "already disabled")
                        ELSE /\ calls' = [calls EXCEPT ![i].pc = "disableJokes"]
                             /\ reply' = reply
  /\ UNCHANGED <<users, jobs, last, logged>>
  /\ StepFrame

\* the database runs UserService.enableJokes or disableJokes (findOneAndUpdate)
\* : the handler goes on with the user document returned
SetEnabled(i) ==
  /\ calls[i].pc \in {"enableJokes", "disableJokes"}
  /\ LET c == calls[i].chatId
     IN IF users[c].exists
          THEN /\ users' = [users EXCEPT
                              ![c].isEnabled = (calls[i].pc = "enableJokes")]
               /\ calls' = [calls EXCEPT ![i].pc = "user",
                                         ![i].frequency = users[c].frequency]
               /\ UNCHANGED <<reply, logged>>
          ELSE /\ Says(i, "error")
               /\ logged' = Report(c, calls[i].cmd)
               /\ users' = users
  /\ UNCHANGED <<jobs, last>>
  /\ StepFrame

\* handleEnable calls scheduleUserJokes(chatId, user.frequency), handleDisable
\* calls cancelUserSchedule(chatId); when it throws, the catch of the handler
\* reports the error to the user
AfterSetEnabled(i) ==
  /\ calls[i].cmd \in {"enable", "disable"} /\ calls[i].pc = "user"
  /\ LET c  == calls[i].chatId
         op == IF calls[i].cmd = "enable" THEN "schedule" ELSE "cancel"
     IN IF agenda = "null"
          THEN /\ Says(i, "error")
               /\ logged' = Report(c, "not initialized")
               /\ last' = last
          ELSE /\ calls' = [calls EXCEPT ![i].op = op, ![i].pc = "cancel"]
               /\ last' = [last EXCEPT ![c] =
                             [op |-> op,
                              frequency |-> IF op = "schedule"
                                              THEN calls[i].frequency ELSE 0]]
               /\ UNCHANGED <<reply, logged>>
  /\ UNCHANGED <<users, jobs>>
  /\ StepFrame

\* handleJobStatus after getStatus has read and logged the job documents
JobsRead(i) ==
  /\ calls[i].cmd = "jobstatus" /\ calls[i].pc = "jobs"
  /\ Says(i, "logged")
  /\ UNCHANGED <<users, jobs, last, logged>>
  /\ StepFrame

\* one step of a command handler in flight, after its rate check
CommandStep ==
  \E i \in DOMAIN calls :
    \/ FindOne(i)
    \/ Create(i)
    \/ GetUser(i)
    \/ SetEnabled(i)
    \/ AfterSetEnabled(i)
    \/ JobsRead(i)

\* a limiter of the registry in which the chats of S have used up the quota
\* of the window that began at time 0
UsedUp(cfg, S) ==
  [config |-> cfg,
   store |-> [k \in { String(c) : c \in S } |->
                [requests |-> cfg.maxRequests, resetTime |-> cfg.windowMs]],
   cleanupInterval |-> TRUE]

\* the names of the limiters of the bot's commands
TelegramNames ==
  { InitializeOrder[i] : i \in 3..10 }

\* the application is up: initializeAll has run, the Agenda is started and
\* has scheduled the enabled users it found; chat 1 is a subscriber who has
\* used up the quota of every command, chat 2 is any user or none
InitCommands ==
  /\ now = 0
  /\ config = FrequencyPolicy
  /\ store = <<>>
  /\ log = <<>>
  /\ pending = [ctx \in Contexts(config) |-> 0]
  /\ users \in [ChatIds -> StoredUsers]
  /\ users[1].exists /\ users[1].isEnabled
  /\ jobs = StoredJobs({ c \in ChatIds : users[c].exists /\ users[c].isEnabled })
  /\ nextJobId = Cardinality(ChatIds) + 1
  /\ scheduledJobs = [c \in { j.data.chatId : j \in jobs } |-> c]
  /\ calls = <<>>
  /\ starting = [state |-> "idle", queue |-> <<>>]
  /\ last = [c \in ChatIds |-> [op |-> "none", frequency |-> 0]]
  /\ issued = 0
  /\ reply = [c \in ChatIds |-> "none"]
  /\ cronJobs = <<>>
  /\ cronTasks = {}
  /\ nextTaskId = 1
  /\ agenda = "running"
  /\ up = TRUE
  /\ sent = [c \in ChatIds |-> 0]
  /\ logged = {}
  /\ atStop = <<>>
  /\ limiters = [n \in { InitializeOrder[i] : i \in DOMAIN InitializeOrder }
                   |-> OrderOf(n)]
  /\ heap = [i \in DOMAIN InitializeOrder |->
               IF InitializeOrder[i] \in TelegramNames
                 THEN UsedUp(PolicyOf(InitializeOrder[i]), {1})
                 ELSE NewLimiter(PolicyOf(InitializeOrder[i]))]
  /\ got = NoOutcome
  /\ res = NoResponse
  /\ lastSentAt = [c \in ChatIds |-> 0]
  /\ polling = TRUE

\* the bot: the eight commands and the steps of their handlers
NextCommands ==
  \/ HandleStart
  \/ HandleEnable
  \/ HandleDisable
  \/ FrequencyCommand
  \/ HandleStatus
  \/ HelpCommand
  \/ HandleTest
  \/ HandleJobStatus
  \/ CommandStep
  \/ HandlerStep
  \/ Step
  \/ DeliveryStep

SpecCommands == InitCommands /\ [][NextCommands]_vars

(***************************************************************************)
(* C22: get and has of the registry.                                       *)
(***************************************************************************)
\* the outcome in got is that of a get, made directly, after has(name) was
\* true, or by checkRateLimit
IsGet(g) == g.op \in {"get", "guarded get", "checkRateLimit"}

Stopped(obj) == ~obj.cleanupInterval /\ obj.store = <<>>

\* C23: after cleanupAll the registry holds no limiter, and every limiter
\* ever created through register has its sweep timer stopped and its store
\* empty, also one that a later register under the same name or a second
\* initializeAll has replaced
C23_CleanupStopsEveryLimiter ==
  got.op = "cleanupAll" =>
    /\ limiters = <<>>
    /\ \A i \in DOMAIN heap : Stopped(heap[i])

(***************************************************************************)
(* The Express middleware in front of the HTTP routes.                     *)
(***************************************************************************)
\* a value is truthy: it is defined and not 0
Truthy(v) == v # Undefined /\ v[1] # 0

\* the requests explored: with or without an x-forwarded-for header, a
\* socket address and an authenticated user; "" stands for an absent field
HttpRequests ==
  [forwarded : {"", "10.0.0.1"}, remoteAddress : {"", "10.0.0.2"},
   userId : {"", "user1"}]

\* the identifier createRateLimitMiddleware takes from the request
Identifier(req) ==
  IF req.forwarded # "" THEN req.forwarded
  ELSE IF req.remoteAddress # "" THEN req.remoteAddress
  ELSE "unknown"

\* the keyGenerator createUserRateLimitMiddleware gives its limiter
UserKey(req) == IF req.userId # "" THEN req.userId ELSE "anonymous"

\* the policies the middlewares are created with, and the key they use
HttpConfigs ==
  { [maxRequests |-> 1, windowMs |-> 1000, keyGenerator |-> "default"],
    [maxRequests |-> 2, windowMs |-> 1500, keyGenerator |-> "default"],
    [maxRequests |-> 2, windowMs |-> 1500, keyGenerator |-> "request user"] }

\* limiter.checkLimit for a context the key generator maps to key
checkLimitAt(key) ==
  LET data == Window(Entry(store, key, now, config), now, config)
  IN /\ store' = StoreAfter(store, key, data)
     /\ log' = Append(log, [op |-> "check", key |-> key, time |-> now,
                            result |-> Result(data, now, config)])

\* res.set({...}) of the three rate-limit headers
RateLimitHeaders(result) ==
  [h \in {"RateLimit-Limit", "RateLimit-Remaining", "RateLimit-Reset"} |->
     CASE h = "RateLimit-Limit"     -> ToString(config.maxRequests)
       [] h = "RateLimit-Remaining" -> ToString(result.remaining)
       [] h = "RateLimit-Reset"     -> ToString(Ceil(result.resetTime, 1000))]

\* res.set('Retry-After', ...) when the check rejected and retryAfter is
\* truthy
WithRetryAfter(headers, result) ==
  IF ~result.isAllowed /\ Truthy(result.retryAfter)
    THEN [h \in DOMAIN headers \cup {"Retry-After"} |->
            IF h = "Retry-After" THEN ToString(result.retryAfter[1])
            ELSE headers[h]]
    ELSE headers

\* a middleware that goes on to next() after it has sent the 429
RespondAndNext(result) ==
  [headers |-> WithRetryAfter(RateLimitHeaders(result), result),
   status  |-> IF result.isAllowed THEN 200 ELSE 429,
   sent    |-> ~result.isAllowed,
   next    |-> 1]

\* the body both middlewares share: the headers, then res.status(429).json
\* and return on a rejection, next() otherwise
Respond(result) ==
  [headers |-> WithRetryAfter(RateLimitHeaders(result), result),
   status  |-> IF result.isAllowed THEN 200 ELSE 429,
   sent    |-> ~result.isAllowed,
   next    |-> IF result.isAllowed THEN 1 ELSE 0]

\* a request passes through the middleware of createRateLimitMiddleware
RateLimitMiddleware ==
  /\ CanCall /\ config.keyGenerator = "default"
  /\ \E req \in HttpRequests : checkLimitAt(Identifier(req))
  /\ res' = Respond(log'[Len(log')].result)
  /\ UNCHANGED <<now, config, pending, agendaVars, cronVars, runVars,
                 limiters, heap, got,
                 lastSentAt, polling>>

\* a request passes through the middleware of createUserRateLimitMiddleware
UserRateLimitMiddleware ==
  /\ CanCall /\ config.keyGenerator = "request user"
  /\ \E req \in HttpRequests : checkLimitAt(UserKey(req))
  /\ res' = Respond(log'[Len(log')].result)
  /\ UNCHANGED <<now, config, pending, agendaVars, cronVars, runVars,
                 limiters, heap, got,
                 lastSentAt, polling>>

InitHttp == \E cfg \in HttpConfigs : InitWith(cfg)

NextHttp == RateLimitMiddleware \/ UserRateLimitMiddleware \/ Tick

SpecHttp == InitHttp /\ [][NextHttp]_vars

(***************************************************************************)
(* C24: the response of the middleware.                                    *)
(***************************************************************************)
\* the middleware handled a request in this step
Handled == Len(log') = Len(log) + 1

\* C24: for every request through the HTTP rate-limit middleware the headers
\* RateLimit-Limit, RateLimit-Remaining and RateLimit-Reset are set; when the
\* check rejects, the response is 429 with Retry-After set and next is not
\* called; when it allows, next is called exactly once and no 429 is sent
C24_MiddlewareResponse ==
  [][Handled =>
       LET result == log'[Len(log')].result
       IN /\ {"RateLimit-Limit", "RateLimit-Remaining", "RateLimit-Reset"}
               \subseteq DOMAIN res'.headers
          /\ res'.headers["RateLimit-Limit"] = ToString(config.maxRequests)
          /\ res'.headers["RateLimit-Remaining"] = ToString(result.remaining)
          /\ ~result.isAllowed =>
               /\ res'.status = 429 /\ res'.sent
               /\ "Retry-After" \in DOMAIN res'.headers
               /\ res'.next = 0
          /\ result.isAllowed =>
               /\ res'.next = 1
               /\ res'.status # 429 /\ ~res'.sent
               /\ "Retry-After" \notin DOMAIN res'.headers]_vars

\* the user-scoped middleware has rejected a request with 429 after it let
\* requests of the same user pass
C24_Witness ==
  /\ config.keyGenerator = "request user"
  /\ res.status = 429 /\ res.next = 0
  /\ "Retry-After" \in DOMAIN res.headers
  /\ \E i \in DOMAIN log : log[i].result.isAllowed /\ log[i].key = log[Len(log)].key

(***************************************************************************)
(* C25: a rejected command touches nothing.                                *)
(***************************************************************************)
\* a command was rate-checked in this step, and rejected
RejectedNow ==
  /\ Len(log') = Len(log) + 1
  /\ ~log'[Len(log')].result.isAllowed

\* C25: when the rate check rejects a command, whichever of the handlers
\* start, enable, disable, frequency, status, help, test and jobstatus it is
\* for, the handler reads and writes no user record and makes no scheduler
\* call: no invocation is begun, and the user records, the job records and
\* the scheduler's tracking are as before
C25_RejectedShortCircuits ==
  [][RejectedNow =>
       /\ calls' = calls /\ issued' = issued
       /\ UNCHANGED <<users, jobs, scheduledJobs, last, nextJobId>>
       /\ \A c \in ChatIds :
            reply'[c] # reply[c] => reply'[c] = "rate limited"]_vars

\* /enable of the subscriber who has used up the quota was rejected while a
\* handler of the other chat was in flight
C25_Witness ==
  /\ got.name = "telegram:enable" /\ ~got.thrown /\ ~got.allowed
  /\ reply[1] = "rate limited"
  /\ calls # <<>>

(***************************************************************************)
(* C26: /enable leaves a job.                                              *)
(***************************************************************************)
\* the /enable handler of invocation i returns in this step without an error,
\* for a registered user
EnableReturns(i) ==
  /\ calls[i].cmd = "enable"
  /\ Len(calls') = Len(calls) - 1 /\ calls' = Remove(calls, i)
  /\ reply'[calls[i].chatId] \in {"enabled", "already enabled"}
  /\ reply'[calls[i].chatId] # reply[calls[i].chatId]

\* C26: whenever /enable of a registered user is handled (not rate-limited,
\* no error), a persistent job for the user exists when the handler returns,
\* also for a new user who sent /start and then /enable
C26_EnableLeavesJob ==
  [][\A i \in DOMAIN calls :
       EnableReturns(i) =>
         \A c \in {calls[i].chatId} : JobsOf(c)' # {}]_vars

(***************************************************************************)
(* C27: the quota of a user over all commands.                             *)
(***************************************************************************)
\* bound of the model: the commands of a burst
MaxBurst == 6

\* the application is up and no command was sent yet: the limiters of
\* initializeAll are new
InitBurst ==
  /\ now = 0
  /\ config = FrequencyPolicy
  /\ store = <<>>
  /\ log = <<>>
  /\ pending = [ctx \in Contexts(config) |-> 0]
  /\ users = [c \in ChatIds |->
                [exists |-> TRUE, isEnabled |-> TRUE, frequency |-> 5]]
  /\ jobs = StoredJobs(ChatIds)
  /\ nextJobId = Cardinality(ChatIds) + 1
  /\ scheduledJobs = [c \in ChatIds |-> c]
  /\ calls = <<>>
  /\ starting = [state |-> "idle", queue |-> <<>>]
  /\ last = [c \in ChatIds |-> [op |-> "none", frequency |-> 0]]
  /\ issued = 0
  /\ reply = [c \in ChatIds |-> "none"]
  /\ cronJobs = <<>>
  /\ cronTasks = {}
  /\ nextTaskId = 1
  /\ agenda = "running"
  /\ up = TRUE
  /\ sent = [c \in ChatIds |-> 0]
  /\ logged = {}
  /\ atStop = <<>>
  /\ limiters = [n \in { InitializeOrder[i] : i \in DOMAIN InitializeOrder }
                   |-> OrderOf(n)]
  /\ heap = [i \in DOMAIN InitializeOrder |->
               NewLimiter(PolicyOf(InitializeOrder[i]))]
  /\ got = NoOutcome
  /\ res = NoResponse
  /\ lastSentAt = [c \in ChatIds |-> 0]
  /\ polling = TRUE

\* /help and /status arrive in a burst, within one millisecond
CanBurst == up /\ BotRuns /\ Len(log) < MaxBurst

HelpBurst ==
  /\ CanBurst
  /\ \E c \in ChatIds : handleHelp(c)
  /\ HandleFrame

StatusBurst ==
  /\ CanBurst
  /\ \E c \in ChatIds : handleStatus(c)
  /\ HandleFrame

NextBurst == HelpBurst \/ StatusBurst \/ CommandStep

SpecBurst == InitBurst /\ [][NextBurst]_vars

\* the commands of chat c that were accepted after time t
AcceptedSince(c, t) ==
  { i \in DOMAIN log :
      log[i].key = String(c) /\ log[i].result.isAllowed /\ log[i].time > t }

\* C27: commands are limited to 5 per 5 seconds per user, whatever the mix of
\* command types: no user has more than 5 commands accepted within the last
\* 5 seconds, the sixth is rejected
C27_FivePerFiveSeconds ==
  \A c \in ChatIds : Cardinality(AcceptedSince(c, now - 5000)) <= 5

(***************************************************************************)
(* Administration of one limiter: reset, resetAll and the registry's       *)
(* reset.                                                                  *)
(***************************************************************************)
\* a limiter is driven for maxRequests + AdminCalls calls
AdminCalls == 4
\* number of clock steps while a limiter is administered
AdminTicks == 1

\* the limiters administered: the small quotas, default and custom keys
AdminConfigs == { cfg \in Configs : cfg.maxRequests <= 2 }

\* the keys of the contexts of cfg, in the order they were first served
KeyOrder(cfg) ==
  LET K == { keyGenerator(cfg, ctx) : ctx \in Contexts(cfg) }
  IN CHOOSE q \in [1..Cardinality(K) -> K] :
       \A k \in K : \E i \in DOMAIN q : q[i] = k

\* a limiter in service: every key has made its first request at time 0
InitAdmin ==
  /\ now = 0
  /\ config \in AdminConfigs
  /\ store = [k \in { keyGenerator(config, ctx) : ctx \in Contexts(config) }
                |-> Window(Entry(<<>>, k, 0, config), 0, config)]
  /\ log = [i \in DOMAIN KeyOrder(config) |->
              [op |-> "check", key |-> KeyOrder(config)[i], time |-> 0,
               result |-> Result(store[KeyOrder(config)[i]], 0, config)]]
  /\ pending = [ctx \in Contexts(config) |-> 0]
  /\ users = [c \in ChatIds |-> Absent]
  /\ jobs = {}
  /\ nextJobId = 1
  /\ scheduledJobs = <<>>
  /\ calls = <<>>
  /\ starting = [state |-> "idle", queue |-> <<>>]
  /\ last = [c \in ChatIds |-> [op |-> "none", frequency |-> 0]]
  /\ issued = 0
  /\ reply = [c \in ChatIds |-> "none"]
  /\ cronJobs = <<>>
  /\ cronTasks = {}
  /\ nextTaskId = 1
  /\ agenda = "null"
  /\ up = TRUE
  /\ sent = [c \in ChatIds |-> 0]
  /\ logged = {}
  /\ atStop = <<>>
  /\ limiters = <<>>
  /\ heap = <<>>
  /\ got = NoOutcome
  /\ res = NoResponse
  /\ lastSentAt = [c \in ChatIds |-> 0]
  /\ polling = FALSE

CanAdmin == Len(log) < config.maxRequests + AdminCalls

\* the strings passed as `identifier`: the identifiers of the contexts and
\* the keys their requests are stored under
StoreKeys == { keyGenerator(config, ctx) : ctx \in Contexts(config) }

Identifiers == { ctx.identifier : ctx \in Contexts(config) } \cup StoreKeys

\* store.delete(identifier) removing every entry
StoreWithoutAny(st, identifier) == <<>>

\* store.delete(identifier)
StoreWithout(st, identifier) ==
  [k \in DOMAIN st \ {identifier} |-> st[k]]

\* RateLimiter.reset(identifier)
reset(identifier) ==
  /\ store' = StoreWithout(store, identifier)
  /\ log' = Append(log, [op |-> "reset", key |-> identifier, time |-> now,
                         result |-> Undefined])

\* RateLimiter.resetAll()
resetAll ==
  /\ store' = <<>>
  /\ log' = Append(log, [op |-> "resetAll", key |-> "", time |-> now,
                         result |-> Undefined])

AdminFrame ==
  UNCHANGED <<now, config, pending, agendaVars, cronVars, runVars, guardVars>>

CheckAdmin ==
  /\ CanAdmin
  /\ \E ctx \in Contexts(config) : checkLimit(ctx)
  /\ AdminFrame

Reset ==
  /\ CanAdmin
  /\ \E identifier \in Identifiers : reset(identifier)
  /\ AdminFrame

\* RateLimiterManager.reset(name, identifier?) on the limiter registered as
\* name: an absent or empty identifier resets every key
ManagerReset ==
  /\ CanAdmin
  /\ \E identifier \in Identifiers :
       IF identifier # "" THEN reset(identifier) ELSE resetAll
  /\ AdminFrame

\* time passes while the limiter is administered
AdminTick == now < AdminTicks * TickMs /\ Tick

NextReset == CheckAdmin \/ Reset \/ ManagerReset \/ AdminTick

SpecReset == InitAdmin /\ [][NextReset]_vars

\* the keys the requests of the contexts carrying `identifier` are stored under
KeysOf(identifier) ==
  { keyGenerator(config, ctx) :
      ctx \in { x \in Contexts(config) : x.identifier = identifier } }

\* log[j] is the first checkLimit on its key after call i
NextCheckAfter(i, j) ==
  /\ i < j
  /\ log[j].op = "check"
  /\ \A m \in DOMAIN log :
       (i < m /\ m < j /\ log[m].op = "check") => log[m].key # log[j].key

\* the result of a checkLimit that found the full quota
FullQuota(e) ==
  /\ e.result.isAllowed
  /\ e.result.remaining = config.maxRequests - 1
  /\ e.result.resetTime = e.time + config.windowMs

\* the entries of all keys but k are the same before and after the step
OthersUnchanged(k) ==
  /\ DOMAIN store' \ {k} = DOMAIN store \ {k}
  /\ \A o \in DOMAIN store \ {k} : store'[o] = store[o]

StatusUnclamped(st, identifier, t, cfg) ==
  IF identifier \notin DOMAIN st
    THEN [requests |-> 0, remaining |-> cfg.maxRequests,
          resetTime |-> t + cfg.windowMs, isActive |-> FALSE]
    ELSE [requests |-> st[identifier].requests,
          remaining |-> cfg.maxRequests - st[identifier].requests,
          resetTime |-> st[identifier].resetTime, isActive |-> TRUE]

\* the object getStatus returns
Status(st, identifier, t, cfg) ==
  IF identifier \notin DOMAIN st
    THEN [requests |-> 0, remaining |-> cfg.maxRequests,
          resetTime |-> t + cfg.windowMs, isActive |-> FALSE]
    ELSE [requests |-> st[identifier].requests,
          remaining |-> Remaining(st[identifier], cfg),
          resetTime |-> st[identifier].resetTime, isActive |-> TRUE]

\* RateLimiter.getStatus(identifier)
getStatus(identifier) ==
  /\ log' = Append(log, [op |-> "getStatus", key |-> identifier, time |-> now,
                         result |-> Status(store, identifier, now, config)])
  /\ UNCHANGED store

GetStatus ==
  /\ CanAdmin
  /\ \E identifier \in Identifiers : getStatus(identifier)
  /\ AdminFrame

NextStatus == CheckAdmin \/ GetStatus \/ AdminTick

SpecStatus == InitAdmin /\ [][NextStatus]_vars

\* the checkLimit calls on the keys of K before call i that fell into the
\* window that is open at call i
InWindow(K, i) ==
  { j \in DOMAIN log :
      /\ j < i
      /\ log[j].op = "check"
      /\ log[j].key \in K
      /\ log[j].result.resetTime > log[i].time
      /\ log[j].time <= log[i].time }

\* what getStatus reports after k calls inside the open window
Reports(e, k) ==
  IF k = 0
    THEN /\ e.result.requests = 0
         /\ e.result.remaining = config.maxRequests
         /\ ~e.result.isActive
    ELSE /\ e.result.requests = k
         /\ e.result.remaining = Max(0, config.maxRequests - k)
         /\ e.result.isActive

\* the result the next checkLimit of ctx would have
NextResult(ctx) ==
  LET key == keyGenerator(config, ctx)
  IN Result(Window(Entry(store, key, now, config), now, config), now, config)

SpecifiedLookup(st, key, t, cfg) ==
  IF key \in DOMAIN st
    THEN st[key]
    ELSE [count |-> 0, windowResetAt |-> t + cfg.windowMs]

\* if now >= windowResetAt, reset the window: count = 0, new windowResetAt
SpecifiedReset(e, t, cfg) ==
  IF t >= e.windowResetAt
    THEN [count |-> 0, windowResetAt |-> t + cfg.windowMs]
    ELSE e

\* increment count
SpecifiedIncrement(e) == [e EXCEPT !.count = @ + 1]

SpecifiedEntry(st, key, t, cfg) ==
  SpecifiedIncrement(SpecifiedReset(SpecifiedLookup(st, key, t, cfg), t, cfg))

\* the specified entry in the fields of the code
AsData(e) == [requests |-> e.count, resetTime |-> e.windowResetAt]

\* the store in the fields of the specified algorithm
AsSpecified(st) ==
  [k \in DOMAIN st |->
     [count |-> st[k].requests, windowResetAt |-> st[k].resetTime]]

\* the store the specified algorithm has after the first n calls of the log
RECURSIVE SpecifiedStore(_)
SpecifiedStore(n) ==
  IF n = 0 THEN <<>>
  ELSE LET st == SpecifiedStore(n - 1)
           c  == log[n]
           e  == SpecifiedEntry(st, c.key, c.time, config)
       IN [k \in DOMAIN st \cup {c.key} |-> IF k = c.key THEN e ELSE st[k]]

\* C30: checkLimit as coded is equivalent to the specified algorithm: every
\* call leaves the count and the reset time in the store that the specified
\* algorithm computes from the same store, key and clock, and over every
\* sequence of calls the results are those the specified algorithm, run on
\* the same sequence from the empty store, gives
C30_CodedEqualsSpecified ==
  /\ [](\A n \in DOMAIN log :
          log[n].result = Result(AsData(SpecifiedStore(n)[log[n].key]),
                                 log[n].time, config))
  /\ [][(Len(log') = Len(log) + 1)
          => LET c == log'[Len(log')]
             IN /\ c.key \in DOMAIN store'
                /\ store'[c.key] =
                     AsData(SpecifiedEntry(AsSpecified(store), c.key, now,
                                           config))]_vars

\* a key was checked in one window, and again after the window had expired
\* while its entry was still stored
C30_Witness ==
  \E i \in DOMAIN log : \E j \in DOMAIN log :
    /\ i < j
    /\ log[i].key = log[j].key
    /\ log[j].time >= log[i].result.resetTime
    /\ log[j].time <= log[i].result.resetTime + config.windowMs
    /\ \A m \in DOMAIN log : (i < m /\ m < j) => log[m].key # log[i].key
    /\ log[j].result.resetTime = log[j].time + config.windowMs
    /\ log[j].result.remaining = config.maxRequests - 1
    /\ log[j].key \in DOMAIN store

(***************************************************************************)
(* The sweep.                                                              *)
(***************************************************************************)
\* the step is a sweep: the only step of the limiter that neither calls
\* checkLimit nor advances the clock
IsSweep == log' = log /\ now' = now

\* C31: a sweep at time now removes exactly the entries with
\* now > resetTime + windowMs: none of them remains, every other entry is
\* kept with its count and resetTime unchanged, and no entry appears
C31_SweepRemovesExactlyStale ==
  [][IsSweep =>
       /\ DOMAIN store' \subseteq DOMAIN store
       /\ \A k \in DOMAIN store :
            IF now > store[k].resetTime + config.windowMs
              THEN k \notin DOMAIN store'
              ELSE k \in DOMAIN store' /\ store'[k] = store[k]]_vars

\* a sweep has removed the entry of one key that was checked, and kept an
\* expired entry of another key that is not yet one window past its reset
C31_Witness ==
  /\ \E i \in DOMAIN log :
       /\ log[i].key \notin DOMAIN store
       /\ now > log[i].result.resetTime + config.windowMs
  /\ \E k \in DOMAIN store :
       /\ now > store[k].resetTime
       /\ now <= store[k].resetTime + config.windowMs

(***************************************************************************)
(* The HTTP routes and the registry.                                       *)
(***************************************************************************)
\* number of HTTP requests in one behaviour
MaxRouteRequests == 2

\* the routes behind createRateLimitMiddleware
Routes == {"/health", "/status"}

\* the registry name of the policy a route is created with
RegistryName(route) == IF route = "/health" THEN "api:health" ELSE "api:status"

\* the limiter createRateLimitMiddleware constructed for the route: the
\* objects made when the module registers its routes, /health first
RouteLimiter(route) == IF route = "/health" THEN 1 ELSE 2

\* app.get(route, createRateLimitMiddleware(RateLimitConfig.api...)), for
\* /health and /status, when the module is loaded: each call constructs a
\* RateLimiter of its own
CreateRouteMiddlewares ==
  /\ heap = <<>>
  /\ heap' = << NewLimiter(PolicyOf("api:health")),
                NewLimiter(PolicyOf("api:status")) >>
  /\ UNCHANGED <<limiterVars, agendaVars, cronVars, runVars, limiters, got,
                 res,
                 lastSentAt, polling>>

\* a request to a route passes its middleware: checkLimit on the limiter of
\* the closure, with the identifier taken from the request
RouteRequest ==
  /\ heap # <<>> /\ Len(log) < MaxRouteRequests
  /\ \E route \in Routes : \E req \in HttpRequests :
       LET ctx == [identifier |-> Identifier(req), userId |-> "",
                   action |-> ""]
           r   == CheckOn(RouteLimiter(route), ctx)
       IN /\ heap' = [heap EXCEPT ![RouteLimiter(route)].store = r.store]
          /\ log' = Append(log, [op |-> route, key |-> Identifier(req),
                                 time |-> now, result |-> r.result])
  /\ UNCHANGED <<now, config, store, pending, agendaVars, cronVars, runVars,
                 limiters, got, res,
                 lastSentAt, polling>>

\* initialize() runs after the routes were registered
InitializeRegistry == heap # <<>> /\ InitializeAll

NextRoutes ==
  CreateRouteMiddlewares \/ InitializeRegistry \/ RouteRequest \/ CleanupAll

SpecRoutes == InitAgenda /\ [][NextRoutes]_vars

\* the requests the limiter obj has counted for key
Counted(obj, key) ==
  IF key \in DOMAIN obj.store THEN obj.store[key].requests ELSE 0

\* the requests made to route by the client identified as key
RequestsTo(route, key) ==
  { i \in DOMAIN log : log[i].op = route /\ log[i].key = key }

\* C32: a request to /health or /status is counted in the limiter registered
\* under 'api:health' or 'api:status': while the registry holds that
\* limiter, it has counted every request made to the route
C32_RoutesCountedInRegistry ==
  \A route \in Routes :
    has(RegistryName(route)) =>
      \A req \in HttpRequests :
        Counted(heap[limiters[RegistryName(route)]], Identifier(req))
          = Cardinality(RequestsTo(route, Identifier(req)))

(***************************************************************************)
(* The rate check through the general limiter.                             *)
(***************************************************************************)
\* rateLimiterManager.register('telegram:command', ...): a registry that
\* holds the general command limiter and none for the single commands
RegisterGeneral ==
  /\ heap = <<>>
  /\ register("telegram:command", RegisterPolicy)
  /\ got' = NoOutcome
  /\ UNCHANGED <<limiterVars, agendaVars, cronVars, runVars, res,
                 lastSentAt, polling>>

NextFallback == RegisterGeneral \/ HelpBurst \/ StatusBurst \/ CommandStep

SpecFallback == InitAgenda /\ [][NextFallback]_vars

\* C33: a user rejected by the command rate limiter always receives the
\* message stating the wait time, also on the path that falls back to the
\* general 'telegram:command' limiter: whenever a check rejects a command,
\* the rate-limit message is sent to its chat before the handler returns
C33_RejectedIsTold ==
  [][(Len(log') = Len(log) + 1 /\ ~log'[Len(log')].result.isAllowed)
       => \A c \in ChatIds :
            String(c) = log'[Len(log')].key => reply'[c] = "rate limited"]_vars

(***************************************************************************)
(* Sweeps between the checks.                                              *)
(***************************************************************************)
\* RateLimiter.cleanup, with the run of the timer entered in the history
sweep ==
  /\ store' = [k \in DOMAIN store \ Stale(store, now, config) |-> store[k]]
  /\ log' = Append(log, [op |-> "cleanup", key |-> "", time |-> now,
                         result |-> Undefined])

\* a limiter is swept and checked for maxRequests + SweepCalls calls
SweepCalls == 2

CanSweep == Len(log) < config.maxRequests + SweepCalls

Sweep ==
  /\ CanSweep
  /\ sweep
  /\ UNCHANGED <<now, config, pending, agendaVars, cronVars, runVars,
                 guardVars>>

\* checkLimit between the sweeps
CheckSwept ==
  /\ CanSweep
  /\ \E ctx \in Contexts(config) : checkLimit(ctx)
  /\ UNCHANGED <<now, config, pending, agendaVars, cronVars, runVars,
                 guardVars>>

NextSweep == CheckSwept \/ Sweep \/ Tick

\* a new limiter with one of the small quotas
InitSweep == \E cfg \in AdminConfigs : InitWith(cfg)

SpecSweep == InitSweep /\ [][NextSweep]_vars

\* the store after the checkLimit calls among the first n entries of the
\* history, had no sweep run
RECURSIVE UnsweptStore(_)
UnsweptStore(n) ==
  IF n = 0 THEN <<>>
  ELSE LET st == UnsweptStore(n - 1)
           c  == log[n]
       IN IF c.op # "check" THEN st
          ELSE StoreAfter(st, c.key,
                          Window(Entry(st, c.key, c.time, config), c.time,
                                 config))

\* C34: the sweep is invisible to callers: over every sequence of checkLimit
\* calls and clock values, with sweeps at any points in between, every
\* result (isAllowed, remaining, resetTime, retryAfter) is the one the same
\* calls give when no sweep runs
C34_SweepInvisible ==
  \A n \in DOMAIN log :
    log[n].op = "check" =>
      log[n].result = Result(UnsweptStore(n)[log[n].key], log[n].time, config)

\* a sweep removed the entry of a key, and the key was checked again
C34_Witness ==
  \E i \in DOMAIN log : \E m \in DOMAIN log : \E j \in DOMAIN log :
    /\ i < m /\ m < j
    /\ log[i].op = "check" /\ log[j].op = "check" /\ log[j].key = log[i].key
    /\ log[m].op = "cleanup"
    /\ log[m].time > log[i].result.resetTime + config.windowMs
    /\ \A x \in DOMAIN log :
         (i < x /\ x < j /\ log[x].op = "check") => log[x].key # log[i].key

(***************************************************************************)
(* The fixed window.                                                       *)
(***************************************************************************)
\* the step is a checkLimit on a key whose window is open
ChecksInWindow(k) ==
  /\ Len(log') = Len(log) + 1
  /\ log'[Len(log')].key = k
  /\ k \in DOMAIN store
  /\ now < store[k].resetTime

C36_DisabledHasNoJob ==
  calls = <<>> =>
    \A c \in ChatIds :
      (users[c].exists /\ ~users[c].isEnabled) => JobsOf(c) = {}

(***************************************************************************)
(* Deliveries while /disable is handled.                                   *)
(***************************************************************************)
\* the job runs of Agenda, the deliveries of /test and of the cron
\* scheduler's testDeliverJoke, and /disable, over the application in service
NextDisable ==
  \/ HandleDisable
  \/ HandleTest
  \/ RunJob
  \/ CronTestDeliverJoke
  \/ CronAfterLookup
  \/ CommandStep
  \/ Step
  \/ DeliveryStep

SpecDisable == InitCommands /\ [][NextDisable]_vars

\* invocation i is a deliverJoke
Delivers(i) == calls[i].cmd \in {"job", "test", "cron"}

\* invocation i stays in flight over the step and goes from pc a to pc b
Goes(i, a, b) ==
  /\ Len(calls') = Len(calls)
  /\ calls[i].pc = a
  /\ calls'[i].pc = b

\* invocation i stays in flight and arrives at pc b
Arrives(i, b) ==
  /\ Len(calls') = Len(calls)
  /\ calls[i].pc # b
  /\ calls'[i].pc = b

\* C37: deliverJoke sends a joke only after it has read the user record and
\* found the user present and enabled, and it updates lastSentAt only after
\* the send succeeded; when the fetch or the send fails lastSentAt is
\* unchanged; and no joke is sent to a user whose /disable handler completed
\* before the lookup of the delivery
C37_SendAfterLookup ==
  /\ [][\A i \in DOMAIN calls :
          Delivers(i) =>
            /\ Arrives(i, "fetch") =>
                 /\ calls[i].pc = "lookup"
                 /\ users[calls[i].chatId].exists
                 /\ users[calls[i].chatId].isEnabled
                 /\ reply[calls[i].chatId] # "paused"
            /\ Arrives(i, "send") => calls[i].pc = "fetch"
            /\ Arrives(i, "update") =>
                 /\ calls[i].pc = "send"
                 /\ sent' = [sent EXCEPT ![calls[i].chatId] = @ + 1]]_vars
  /\ [][(Len(calls') = Len(calls) + 1)
          => calls'[Len(calls')].pc \notin {"fetch", "send", "update"}]_vars
  /\ [][sent' # sent =>
          \E i \in DOMAIN calls : Delivers(i) /\ Goes(i, "send", "update")]_vars
  /\ [][lastSentAt' # lastSentAt =>
          \E i \in DOMAIN calls :
            /\ Delivers(i) /\ calls[i].pc = "update"
            /\ calls' = Remove(calls, i)
            /\ logged' = logged
            /\ lastSentAt' =
                 [lastSentAt EXCEPT ![calls[i].chatId] = @ + 1]]_vars

\* /disable of a chat was answered, and a job run for the chat has found the
\* user disabled: it cancels, nothing was sent
C37_Witness ==
  \E c \in ChatIds : \E i \in DOMAIN calls :
    /\ reply[c] = "paused"
    /\ ~users[c].isEnabled
    /\ calls[i].cmd = "job" /\ calls[i].chatId = c
    /\ calls[i].pc = "cancel"
    /\ sent[c] = 0

(***************************************************************************)
(* The tracking map and the job store.                                     *)
(***************************************************************************)
\* no schedule, cancel, stop or start is in progress
Quiet == calls = <<>> /\ starting.queue = <<>> /\ starting.state # "loading"

\* C38: the scheduler's tracking map agrees with the job store: whenever no
\* schedule or cancel call is in progress, a chatId is in scheduledJobs iff
\* the store holds a job record for that chatId, also after a failed save or
\* cancel, after a self-cancel of the handler and after a restart, before
\* and after start()
C38_MapAgreesWithStore ==
  Quiet =>
    \A c \in ChatIds : (c \in DOMAIN scheduledJobs) <=> (JobsOf(c) # {})

(***************************************************************************)
(* The registry from initialize() to the end of gracefulShutdown.          *)
(***************************************************************************)
\* initialize() of index.ts: initializeAll, then the bot is constructed with
\* { polling: true }
AppInitialize ==
  /\ heap = <<>> /\ ~polling
  /\ initializeAll
  /\ polling' = TRUE
  /\ UNCHANGED <<limiterVars, agendaVars, cronVars, runVars, res,
                 lastSentAt>>

\* gracefulShutdown, first statement: rateLimiterManager.cleanupAll()
ShutdownCleanup == polling /\ limiters # <<>> /\ CleanupAll

\* gracefulShutdown, later: await botService.stop() ends the polling
StopPolling ==
  /\ polling /\ heap # <<>> /\ limiters = <<>>
  /\ polling' = FALSE
  /\ UNCHANGED <<limiterVars, agendaVars, cronVars, runVars, limiters, heap,
                 got, res, lastSentAt>>

\* a command arrives while the bot polls
CanPoll == up /\ polling /\ Len(log) < MaxRequests

PolledHelp ==
  /\ CanPoll
  /\ \E c \in ChatIds : handleHelp(c)
  /\ HandleFrame

PolledStatus ==
  /\ CanPoll
  /\ \E c \in ChatIds : handleStatus(c)
  /\ HandleFrame

NextShutdown ==
  \/ AppInitialize
  \/ PolledHelp
  \/ PolledStatus
  \/ CommandStep
  \/ ShutdownCleanup
  \/ StopPolling

SpecShutdown == InitAgenda /\ [][NextShutdown]_vars

\* C39: from initialization to the end of graceful shutdown every command
\* the bot receives while it polls is checked against a registered limiter:
\* checkRateLimit never hits a missing limiter
C39_PolledCommandFindsLimiter ==
  (polling /\ got.op = "checkRateLimit") => (got.found /\ ~got.thrown)

(***************************************************************************)
(* The stored preference and the job record across /frequency and /enable, *)
(* the scheduler call of the handler succeeding or throwing.               *)
(***************************************************************************)
\* /frequency n with a frequency subscribers choose
ChangeFrequency ==
  /\ CanHandle
  /\ \E c \in ChatIds : \E n \in Frequencies : handleFrequency(c, n)
  /\ HandleFrame

\* an awaited call of the job store inside scheduleUserJokes rejects
\* (agenda.cancel or job.save): scheduleUserJokes logs the error and
\* rethrows, the catch of the command handler answers with the error message
StoreFails(i) ==
  /\ calls[i].cmd \in {"frequency", "enable"}
  /\ calls[i].op = "schedule"
  /\ calls[i].pc \in {"cancel", "save"}
  /\ Says(i, "error")
  /\ logged' = Report(calls[i].chatId, "scheduling")
  /\ UNCHANGED <<users, jobs, last>>
  /\ StepFrame

\* /frequency and /enable over a job store whose calls can reject
NextPreference ==
  \/ HandleEnable
  \/ ChangeFrequency
  \/ CommandStep
  \/ HandlerStep
  \/ Step
  \/ \E i \in DOMAIN calls : StoreFails(i)

SpecPreference == InitCommands /\ [][NextPreference]_vars

\* C40: when the /frequency and /enable handlers have finished, whether
\* their scheduler call succeeded or threw, every job of a user repeats at
\* the user's stored frequency, and an enabled user is not left without a job
C40_PreferenceAgreesWithJob ==
  calls = <<>> =>
    \A c \in ChatIds :
      users[c].exists =>
        /\ \A j \in JobsOf(c) : IntervalMinutes(j) = users[c].frequency
        /\ users[c].isEnabled => JobsOf(c) # {}

====
